---- MODULE Spec2Model ----
(***************************************************************************)
(* A model of the chat server of ChatappAI: the in-memory store            *)
(* (server/storage.ts, class MemStorage), the REST handlers that compose   *)
(* it with the provider adapter (server/routes.ts) and the adapter's       *)
(* dispatch (server/services/ai-providers.ts, class AIProviderService).    *)
(*                                                                         *)
(* A JavaScript Map iterates in insertion order, so each Map of the store  *)
(* is a sequence of its values in insertion order; Map.set on a present    *)
(* key keeps the entry's place and Map.delete removes it.  randomUUID() is *)
(* a fresh identifier: the value of a counter that is never reused.        *)
(* new Date() reads the clock `now`, which has the resolution of one tick  *)
(* and never runs backwards; two readings may return the same value.       *)
(***************************************************************************)
EXTENDS Integers, Sequences, FiniteSets, TLC

VARIABLES
    now,            \* the wall clock read by new Date()
    nextId,         \* the next value randomUUID() returns
    conversations,  \* MemStorage.conversations, in insertion order
    messages,       \* MemStorage.messages, in insertion order
    apiKeys,        \* MemStorage.apiKeys, in insertion order
    last,           \* history: the last call that completed, with its result
    setHist,        \* history: per (userId, provider), the keys returned by the
                    \* setApiKey calls made since the pair's last deleteApiKey
    deleted,        \* history: the ids deleteConversation has been called with
    reqs,           \* the HTTP requests being handled, each with its locals
    started,        \* history: the number of HTTP requests received
    quota           \* the number of HTTP requests the run receives

vars == <<now, nextId, conversations, messages, apiKeys, last, setHist, deleted,
          reqs, started, quota>>

store == <<conversations, messages, apiKeys>>

----------------------------------------------------------------------------
(* Bounds of the model. *)

MaxTime == 2
MaxKeys == 3        \* setApiKey calls in a run of the key methods
MaxCalls == 3       \* calls in a run of the conversation and message methods
MaxInFlight == 2    \* HTTP requests handled at once
MaxRequests == 3    \* HTTP requests received in a run of the handlers
MaxSeededRequests == 2    \* HTTP requests received after the store was seeded
MaxOverlapRequests == 2   \* HTTP requests received in a run of overlapping requests

----------------------------------------------------------------------------
(* Values. *)

undefined == [tag |-> "undefined"]
mockUserId == "user-1"

AIProvider ==
    {"openai", "anthropic", "google", "huggingface", "cerebras", "sambanova",
     "mistral", "cohere", "xai", "perplexity", "together", "fireworks"}

\* The callers of the store that the model enumerates.
Users == {mockUserId, "user-2"}
StoreProviders == {"openai", "google"}
KeyValues == << <<"s", "k", "-", "a">>,
               <<"s", "k", "-", "1", "2", "3", "4", "5", "6", "7">> >>

Pairs == Users \X StoreProviders

\* The requests the server can handle at once.
Slots == 1..MaxInFlight
idle == [kind |-> "idle", pc |-> "idle"]

\* Object spread {...a, ...b}: the fields of b override those of a.
Spread(a, b) ==
    [f \in DOMAIN a \cup DOMAIN b |-> IF f \in DOMAIN b THEN b[f] ELSE a[f]]

\* Array.prototype.filter is SelectSeq: it keeps the order of what it keeps.

Range(s) == {s[i] : i \in 1..Len(s)}

----------------------------------------------------------------------------
(* API keys: MemStorage.getApiKeysByUserId, getApiKey, setApiKey,          *)
(* deleteApiKey.                                                           *)

getApiKeysByUserId(keys, userId) ==
    LET ofUser(key) == key.userId = userId
    IN  SelectSeq(keys, ofUser)

\* Array.prototype.find: the first match in insertion order, or undefined.
getApiKey(keys, userId, provider) ==
    LET match(key) == key.userId = userId /\ key.provider = provider /\ key.isActive
        found == SelectSeq(keys, match)
    IN  IF found = <<>> THEN undefined ELSE Head(found)

\* A mutant of deactivateKeys: only the first key of the pair is deactivated.
deactivateFirstKey(keys, userId, provider) ==
    LET ofPair(i) == keys[i].userId = userId /\ keys[i].provider = provider
    IN  [i \in 1..Len(keys) |->
            IF ofPair(i) /\ \A j \in 1..(i - 1) : ~ofPair(j)
            THEN [keys[i] EXCEPT !.isActive = FALSE]
            ELSE keys[i]]

\* The forEach of setApiKey: every key of the pair gets isActive = false and
\* keeps its place in the Map.
deactivateKeys(keys, userId, provider) ==
    [i \in 1..Len(keys) |->
        IF keys[i].userId = userId /\ keys[i].provider = provider
        THEN [keys[i] EXCEPT !.isActive = FALSE]
        ELSE keys[i]]

\* A mutant of newApiKey: { id, isActive: true, createdAt, ...apiKey }, so
\* the fields of the argument win.
newApiKeyAsGiven(apiKey, id, t) ==
    Spread([id |-> id, isActive |-> TRUE, createdAt |-> t], apiKey)

\* { ...apiKey, id, isActive: true, createdAt: new Date() }
newApiKey(apiKey, id, t) ==
    Spread(apiKey, [id |-> id, isActive |-> TRUE, createdAt |-> t])

\* A mutant of apiKeysAfterSet: the keys of the pair are left active.
apiKeysAfterInsertOnly(keys, apiKey, id, t) ==
    Append(keys, newApiKey(apiKey, id, t))

\* A mutant of apiKeysAfterSet: the new key replaces the keys of its pair.
apiKeysAfterReplace(keys, apiKey, id, t) ==
    LET otherPair(key) ==
            ~(key.userId = apiKey.userId /\ key.provider = apiKey.provider)
    IN  Append(SelectSeq(keys, otherPair), newApiKey(apiKey, id, t))

\* The Map after setApiKey(apiKey).
apiKeysAfterSet(keys, apiKey, id, t) ==
    Append(deactivateKeys(keys, apiKey.userId, apiKey.provider),
           newApiKey(apiKey, id, t))

\* Map.delete(id)
deleteById(s, id) ==
    LET other(x) == x.id # id
    IN  SelectSeq(s, other)

\* A mutant of apiKeysAfterDelete: every key of the pair is removed.
apiKeysAfterDeletePair(keys, userId, provider) ==
    LET otherPair(key) == ~(key.userId = userId /\ key.provider = provider)
    IN  SelectSeq(keys, otherPair)

\* The Map after deleteApiKey(userId, provider).
apiKeysAfterDelete(keys, userId, provider) ==
    LET key == getApiKey(keys, userId, provider)
    IN  IF key # undefined THEN deleteById(keys, key.id) ELSE keys

\* The request bodies of setApiKey: isActive is optional in InsertApiKey.
InsertApiKeys ==
    [userId : Users, provider : StoreProviders, keyValue : {KeyValues[1]}]
    \cup [userId : Users, provider : StoreProviders, keyValue : {KeyValues[2]},
          isActive : {FALSE}]

noHist == [p \in Pairs |-> <<>>]

\* Keep the last two keys set for the pair.
pushHist(h, key) == IF Len(h) < 2 THEN Append(h, key) ELSE <<h[2], key>>

setApiKey(apiKey) ==
    /\ nextId <= MaxKeys
    /\ LET key == newApiKey(apiKey, nextId, now)
           pair == <<apiKey.userId, apiKey.provider>>
       IN  /\ apiKeys' = apiKeysAfterSet(apiKeys, apiKey, nextId, now)
           /\ last' = [op |-> "setApiKey", n |-> last.n, userId |-> apiKey.userId,
                       provider |-> apiKey.provider, ret |-> key, pre |-> apiKeys]
           /\ setHist' = [setHist EXCEPT ![pair] = pushHist(@, key)]
    /\ nextId' = nextId + 1
    /\ UNCHANGED <<now, conversations, messages, deleted, reqs, started, quota>>

deleteApiKey(userId, provider) ==
    /\ apiKeys' = apiKeysAfterDelete(apiKeys, userId, provider)
    /\ last' = [op |-> "deleteApiKey", n |-> last.n, userId |-> userId,
                provider |-> provider,
                ret |-> (getApiKey(apiKeys, userId, provider) # undefined),
                pre |-> apiKeys]
    /\ setHist' = [setHist EXCEPT ![<<userId, provider>>] = <<>>]
    /\ UNCHANGED <<now, nextId, conversations, messages, deleted, reqs, started, quota>>

----------------------------------------------------------------------------
(* Conversations and messages: MemStorage.getConversationsByUserId,        *)
(* getConversation, createConversation, updateConversation,                *)
(* deleteConversation, getMessagesByConversationId, createMessage,         *)
(* deleteMessagesByConversationId.                                         *)
(*                                                                         *)
(* `conversations` holds the Map's entries [key, value]: updateConversation *)
(* stores under the key it was called with whatever id its updates carry.  *)

\* Array.prototype.sort with a comparator: a stable sort, so a[i] comes to
\* stand behind every element that compares lower and behind the earlier
\* elements that compare equal.
Sort(s, compare(_, _)) ==
    LET rank(i) ==
            Cardinality({j \in 1..Len(s) :
                \/ compare(s[j], s[i]) < 0
                \/ compare(s[j], s[i]) = 0 /\ j < i}) + 1
    IN  [r \in 1..Len(s) |-> s[CHOOSE i \in 1..Len(s) : rank(i) = r]]

\* Array.from(map.values())
values(entries) == [i \in 1..Len(entries) |-> entries[i].value]

\* A mutant of compareUpdatedAt: the operands are swapped.
compareUpdatedAtAscending(a, b) == a.updatedAt - b.updatedAt

\* (a, b) => new Date(b.updatedAt).getTime() - new Date(a.updatedAt).getTime()
compareUpdatedAt(a, b) == b.updatedAt - a.updatedAt

\* (a, b) => new Date(a.createdAt).getTime() - new Date(b.createdAt).getTime()
compareCreatedAt(a, b) == a.createdAt - b.createdAt

getConversationsByUserId(convs, userId) ==
    LET ofUser(conv) == conv.userId = userId
    IN  Sort(SelectSeq(values(convs), ofUser), compareUpdatedAt)

\* Map.get(id)
getConversation(convs, id) ==
    LET at == {i \in 1..Len(convs) : convs[i].key = id}
    IN  IF at = {} THEN undefined ELSE convs[CHOOSE i \in at : TRUE].value

\* conversation.userId || null
noUser == "<null>"
userIdOrNull(conversation) ==
    IF "userId" \in DOMAIN conversation /\ conversation.userId # ""
    THEN conversation.userId ELSE noUser

\* { ...conversation, id, userId: conversation.userId || null,
\*   createdAt: now, updatedAt: now }
newConversation(conversation, id, t) ==
    Spread(conversation,
           [id |-> id, userId |-> userIdOrNull(conversation),
            createdAt |-> t, updatedAt |-> t])

\* A mutant of updatedConversation: the updates are spread last.
updatedKeepingUpdatedAt(existing, updates, t) ==
    Spread(Spread(existing, [updatedAt |-> t]), updates)

\* { ...existing, ...updates, updatedAt: new Date() }
updatedConversation(existing, updates, t) ==
    Spread(Spread(existing, updates), [updatedAt |-> t])

\* Map.set(key, value): a present key keeps its place.
mapSet(entries, key, value) ==
    IF \E i \in 1..Len(entries) : entries[i].key = key
    THEN [i \in 1..Len(entries) |->
            IF entries[i].key = key THEN [key |-> key, value |-> value]
            ELSE entries[i]]
    ELSE Append(entries, [key |-> key, value |-> value])

\* Map.delete(key)
mapDelete(entries, key) ==
    LET other(e) == e.key # key
    IN  SelectSeq(entries, other)

\* A mutant of getMessagesByConversationId: the sort is left out.
getMessagesUnsorted(msgs, conversationId) ==
    LET ofConversation(msg) == msg.conversationId = conversationId
    IN  SelectSeq(msgs, ofConversation)

getMessagesByConversationId(msgs, conversationId) ==
    LET ofConversation(msg) == msg.conversationId = conversationId
    IN  Sort(SelectSeq(msgs, ofConversation), compareCreatedAt)

\* message.metadata || null
null == [tag |-> "null"]
metadataOrNull(message) ==
    IF "metadata" \in DOMAIN message THEN message.metadata ELSE null

\* { ...message, id, metadata: message.metadata || null, createdAt: new Date() }
newMessage(message, id, t) ==
    Spread(message,
           [id |-> id, metadata |-> metadataOrNull(message), createdAt |-> t])

\* A mutant of messagesAfterDelete: only the first message found is deleted.
messagesAfterDeleteFirst(msgs, conversationId) ==
    LET at == {i \in 1..Len(msgs) : msgs[i].conversationId = conversationId}
        first == CHOOSE i \in at : \A j \in at : i <= j
    IN  IF at = {} THEN msgs ELSE deleteById(msgs, msgs[first].id)

\* A mutant of messagesAfterDelete: the Map of messages is cleared.
messagesAfterClear(msgs, conversationId) == <<>>

\* The Map after deleteMessagesByConversationId(conversationId).
messagesAfterDelete(msgs, conversationId) ==
    LET other(msg) == msg.conversationId # conversationId
    IN  SelectSeq(msgs, other)

\* Map.delete's result: whether the key was present.
hasKey(entries, key) == \E i \in 1..Len(entries) : entries[i].key = key

\* The arguments the model calls the store with.
InsertConversations ==
    { [title |-> "Test", userId |-> mockUserId, provider |-> "openai",
       model |-> "gpt-4o"],
      [title |-> "Other", userId |-> "user-2", provider |-> "google",
       model |-> "gemini-2.5-flash"],
      [title |-> "Nobody's", provider |-> "openai", model |-> ""] }

ConversationUpdates ==
    { <<>>,
      [title |-> "Renamed", updatedAt |-> 0],
      [id |-> 0, userId |-> "user-2", provider |-> "google",
       model |-> "gemini-2.5-pro"] }

InsertMessages(ids) ==
    [conversationId : ids, role : {"user"}, content : {"Hello"}]
    \cup [conversationId : ids, role : {"assistant"}, content : {"Hi"},
          metadata : {[usage |-> undefined]}]

\* The ids a caller can name: those handed out so far and one that is not
\* in the store.
StoreIds == 1..nextId

createConversation(conversation) ==
    /\ last.n < MaxCalls
    /\ LET conv == newConversation(conversation, nextId, now)
       IN  /\ conversations' = mapSet(conversations, nextId, conv)
           /\ last' = [op |-> "createConversation", n |-> last.n + 1,
                       id |-> nextId, ret |-> conv, time |-> now]
    /\ nextId' = nextId + 1
    /\ UNCHANGED <<now, messages, apiKeys, setHist, deleted, reqs, started, quota>>

updateConversation(id, updates) ==
    /\ last.n < MaxCalls
    /\ LET existing == getConversation(conversations, id)
           updated == updatedConversation(existing, updates, now)
       IN  IF existing = undefined
           THEN /\ last' = [op |-> "updateConversation", n |-> last.n + 1,
                            id |-> id, updates |-> updates, ret |-> undefined,
                            time |-> now, pre |-> <<conversations, messages>>]
                /\ UNCHANGED conversations
           ELSE /\ conversations' = mapSet(conversations, id, updated)
                /\ last' = [op |-> "updateConversation", n |-> last.n + 1,
                            id |-> id, updates |-> updates, ret |-> updated,
                            time |-> now, pre |-> <<conversations, messages>>]
    /\ UNCHANGED <<now, nextId, messages, apiKeys, setHist, deleted, reqs, started, quota>>

\* deleteConversation awaits deleteMessagesByConversationId and then deletes
\* the conversation; here the call runs to completion.
deleteConversation(id) ==
    /\ last.n < MaxCalls
    /\ messages' = messagesAfterDelete(messages, id)
    /\ conversations' = mapDelete(conversations, id)
    /\ last' = [op |-> "deleteConversation", n |-> last.n + 1, id |-> id,
                ret |-> hasKey(conversations, id),
                again |-> (last.op = "deleteConversation" /\ last.id = id),
                pre |-> <<conversations, messages>>, keys |-> apiKeys]
    /\ deleted' = deleted \cup {id}
    /\ UNCHANGED <<now, nextId, apiKeys, setHist, reqs, started, quota>>

createMessage(message) ==
    /\ last.n < MaxCalls
    /\ LET msg == newMessage(message, nextId, now)
       IN  /\ messages' = Append(messages, msg)
           /\ last' = [op |-> "createMessage", n |-> last.n + 1,
                       id |-> nextId, ret |-> msg, time |-> now]
    /\ nextId' = nextId + 1
    /\ UNCHANGED <<now, conversations, apiKeys, setHist, deleted, reqs, started, quota>>

deleteMessagesByConversationId(conversationId) ==
    /\ last.n < MaxCalls
    /\ messages' = messagesAfterDelete(messages, conversationId)
    /\ last' = [op |-> "deleteMessagesByConversationId", n |-> last.n + 1,
                id |-> conversationId, ret |-> TRUE,
                pre |-> <<conversations, messages>>, keys |-> apiKeys]
    /\ UNCHANGED <<now, nextId, conversations, apiKeys, setHist, deleted, reqs, started, quota>>

\* new Date() reads the wall clock, which an administrator or a time
\* daemon can set back.
ClockSetBack ==
    /\ \E t \in 0..(now - 1) : now' = t
    /\ UNCHANGED <<nextId, conversations, messages, apiKeys, last, setHist, deleted, reqs, started, quota>>

----------------------------------------------------------------------------
(* The provider adapter: AIProviderService.sendMessage and the twelve      *)
(* send<Provider>Message methods it dispatches to.                         *)

DEFAULT_MODELS ==
    [provider \in AIProvider |->
        CASE provider = "openai" -> "gpt-4o"
          [] provider = "anthropic" -> "claude-sonnet-4-20250514"
          [] provider = "google" -> "gemini-2.5-flash"
          [] provider = "huggingface" -> "meta-llama/Llama-3.2-11B-Vision-Instruct"
          [] provider = "cerebras" -> "llama3.1-8b"
          [] provider = "sambanova" -> "Meta-Llama-3.1-8B-Instruct"
          [] provider = "mistral" -> "mistral-large-latest"
          [] provider = "cohere" -> "command-r-plus"
          [] provider = "xai" -> "grok-beta"
          [] provider = "perplexity" -> "llama-3.1-sonar-large-128k-online"
          [] provider = "together" -> "meta-llama/Meta-Llama-3.1-8B-Instruct-Turbo"
          [] provider = "fireworks" ->
                "accounts/fireworks/models/llama-v3p1-8b-instruct"]

\* The optional parameter model?: string when the caller leaves it out.
noModel == "<undefined>"

\* A provider's answer that reports no token counts.
noUsage == [tag |-> "undefined"]

\* A mutant of selectedModel: model ?? DEFAULT_MODELS[provider].
selectedModelNullish(provider, model) ==
    IF model = noModel THEN DEFAULT_MODELS[provider] ELSE model

\* model || DEFAULT_MODELS[provider]: the empty string is falsy too.
selectedModel(provider, model) ==
    IF model = noModel \/ model = "" THEN DEFAULT_MODELS[provider] ELSE model

\* The switch of sendMessage: the method a provider is dispatched to, or
\* none for the default branch, which throws.
adapterOf(provider) ==
    CASE provider = "openai" -> "sendOpenAIMessage"
      [] provider = "anthropic" -> "sendAnthropicMessage"
      [] provider = "google" -> "sendGoogleMessage"
      [] provider = "huggingface" -> "sendHuggingFaceMessage"
      [] provider = "cerebras" -> "sendCerebrasMessage"
      [] provider = "sambanova" -> "sendSambanovaMessage"
      [] provider = "mistral" -> "sendMistralMessage"
      [] provider = "cohere" -> "sendCohereMessage"
      [] provider = "xai" -> "sendXAIMessage"
      [] provider = "perplexity" -> "sendPerplexityMessage"
      [] provider = "together" -> "sendTogetherMessage"
      [] provider = "fireworks" -> "sendFireworksMessage"
      [] OTHER -> "none"

\* A mutant of providerOf: the methods for the OpenAI-compatible endpoints
\* carry the literal of the method they were copied from.
providerOfCopied(adapter) ==
    CASE adapter = "sendOpenAIMessage" -> "openai"
      [] adapter = "sendAnthropicMessage" -> "anthropic"
      [] adapter = "sendGoogleMessage" -> "google"
      [] adapter = "sendHuggingFaceMessage" -> "huggingface"
      [] adapter = "sendCerebrasMessage" -> "openai"
      [] adapter = "sendSambanovaMessage" -> "openai"
      [] adapter = "sendMistralMessage" -> "mistral"
      [] adapter = "sendCohereMessage" -> "cohere"
      [] adapter = "sendXAIMessage" -> "openai"
      [] adapter = "sendPerplexityMessage" -> "openai"
      [] adapter = "sendTogetherMessage" -> "openai"
      [] adapter = "sendFireworksMessage" -> "openai"

\* The provider literal in the value each method returns.
providerOf(adapter) ==
    CASE adapter = "sendOpenAIMessage" -> "openai"
      [] adapter = "sendAnthropicMessage" -> "anthropic"
      [] adapter = "sendGoogleMessage" -> "google"
      [] adapter = "sendHuggingFaceMessage" -> "huggingface"
      [] adapter = "sendCerebrasMessage" -> "cerebras"
      [] adapter = "sendSambanovaMessage" -> "sambanova"
      [] adapter = "sendMistralMessage" -> "mistral"
      [] adapter = "sendCohereMessage" -> "cohere"
      [] adapter = "sendXAIMessage" -> "xai"
      [] adapter = "sendPerplexityMessage" -> "perplexity"
      [] adapter = "sendTogetherMessage" -> "together"
      [] adapter = "sendFireworksMessage" -> "fireworks"

\* The methods whose return value carries usage when the answer has one:
\* the Google, Hugging Face and Cohere methods return none.
reportsUsage(adapter) ==
    adapter \notin {"sendGoogleMessage", "sendHuggingFaceMessage", "sendCohereMessage"}

\* The AIResponse a method returns for the provider's answer.
aiResponse(adapter, model, answer) ==
    [content |-> answer.content,
     model |-> model,
     provider |-> providerOf(adapter),
     usage |-> IF reportsUsage(adapter) THEN answer.usage ELSE noUsage]

\* What the providers answer: a text (response.text || "" and its like
\* turn a missing text into ""), with or without token counts.
Answers ==
    { [content |-> "Hi", usage |-> [promptTokens |-> 1, completionTokens |-> 1,
                                    totalTokens |-> 2]],
      [content |-> "", usage |-> noUsage] }

\* The model arguments of the calls the model makes.
ModelArguments == {noModel, "", "gpt-4o", "gemini-2.5-pro"}

\* What the SDK call of a method rejects with when the request fails in
\* transport or at the provider.  No method catches it.
Failures ==
    { [name |-> "APIConnectionError", message |-> "Connection error."],
      [name |-> "AuthenticationError", status |-> 401,
       message |-> "401 Incorrect API key provided"] }

\* The role a method writes into its request for a message of the history:
\* Gemini calls the assistant 'model', Cohere has USER and CHATBOT, the
\* Hugging Face prompt has Human and Assistant; the other methods pass
\* msg.role on.
outboundRole(adapter, role) ==
    CASE adapter = "sendGoogleMessage" ->
            IF role = "assistant" THEN "model" ELSE "user"
      [] adapter = "sendCohereMessage" ->
            IF role = "user" THEN "USER" ELSE "CHATBOT"
      [] adapter = "sendHuggingFaceMessage" ->
            IF role = "user" THEN "Human" ELSE "Assistant"
      [] OTHER -> role

\* messages.slice(0, -1)
allButLast(s) == SubSeq(s, 1, Len(s) - 1)

\* The roles and texts of the request a method sends for a history (the
\* image parts and the generation parameters are left out): contents with
\* parts for Gemini; a prompt of one line per message that ends with
\* "Assistant:" for Hugging Face; the last message's text and the mapped
\* chatHistory of those before it (undefined when there are none) for
\* Cohere; messages with role and content for the others.
outboundRequest(adapter, history) ==
    LET role(i) == outboundRole(adapter, history[i].role)
    IN  CASE adapter = "sendGoogleMessage" ->
                [contents |-> [i \in 1..Len(history) |->
                    [role |-> role(i), parts |-> <<[text |-> history[i].content]>>]]]
          [] adapter = "sendHuggingFaceMessage" ->
                [inputs |-> [i \in 1..Len(history) |-> <<role(i), ": ", history[i].content>>]
                            \o << <<"Assistant:">> >>]
          [] adapter = "sendCohereMessage" ->
                [message |-> history[Len(history)].content,
                 chatHistory |->
                    IF Len(history) > 1
                    THEN [i \in 1..Len(allButLast(history)) |->
                            [role |-> role(i), message |-> history[i].content]]
                    ELSE undefined]
          [] OTHER ->
                [messages |-> [i \in 1..Len(history) |->
                    [role |-> role(i), content |-> history[i].content]]]

\* messages[messages.length - 1].content of sendCohereMessage is a
\* TypeError on an empty history; no other method reads an element that
\* may be missing.
throwsOnHistory(adapter, history) ==
    adapter = "sendCohereMessage" /\ history = <<>>

\* A mutant of messagesAfterCall: the roles are relabelled in place.
messagesRelabelled(adapter, history) ==
    [i \in 1..Len(history) |->
        [history[i] EXCEPT !.role = outboundRole(adapter, @)]]

\* The array the caller passed, once the method has built its request:
\* every method builds the request with map and slice, which return new
\* arrays of new objects, and none assigns to the array or its elements.
messagesAfterCall(adapter, history) == history

\* A mutant of getAvailableModels: the first model of each list is missing.
getAvailableModelsRest(provider) ==
    CASE provider = "openai" -> <<"gpt-4o-mini", "gpt-3.5-turbo">>
      [] provider = "anthropic" ->
            <<"claude-3-7-sonnet-20250219", "claude-3-haiku-20240307">>
      [] provider = "google" -> <<"gemini-2.5-pro", "gemini-1.5-flash">>
      [] OTHER -> <<>>

\* getAvailableModels(provider): the array literal of the provider's case.
getAvailableModels(provider) ==
    CASE provider = "openai" -> <<"gpt-4o", "gpt-4o-mini", "gpt-3.5-turbo">>
      [] provider = "anthropic" ->
            <<"claude-sonnet-4-20250514", "claude-3-7-sonnet-20250219",
              "claude-3-haiku-20240307">>
      [] provider = "google" ->
            <<"gemini-2.5-flash", "gemini-2.5-pro", "gemini-1.5-flash">>
      [] provider = "huggingface" ->
            <<"meta-llama/Llama-3.2-11B-Vision-Instruct",
              "meta-llama/Llama-3.1-8B-Instruct", "microsoft/DialoGPT-medium">>
      [] provider = "cerebras" -> <<"llama3.1-8b", "llama3.1-70b">>
      [] provider = "sambanova" ->
            <<"Meta-Llama-3.1-8B-Instruct", "Meta-Llama-3.1-70B-Instruct">>
      [] provider = "mistral" ->
            <<"mistral-large-latest", "mistral-medium-latest",
              "mistral-small-latest", "codestral-latest">>
      [] provider = "cohere" -> <<"command-r-plus", "command-r", "command-light">>
      [] provider = "xai" -> <<"grok-beta", "grok-vision-beta">>
      [] provider = "perplexity" ->
            <<"llama-3.1-sonar-large-128k-online",
              "llama-3.1-sonar-small-128k-online",
              "llama-3.1-sonar-huge-128k-online">>
      [] provider = "together" ->
            <<"meta-llama/Meta-Llama-3.1-8B-Instruct-Turbo",
              "meta-llama/Meta-Llama-3.1-70B-Instruct-Turbo",
              "microsoft/WizardLM-2-8x22B">>
      [] provider = "fireworks" ->
            <<"accounts/fireworks/models/llama-v3p1-8b-instruct",
              "accounts/fireworks/models/mixtral-8x7b-instruct",
              "accounts/fireworks/models/yi-large">>
      [] OTHER -> <<>>

\* new Error(`Unsupported provider: ${provider}`)
unsupportedProvider(provider) ==
    [name |-> "Error", message |-> <<"Unsupported provider: ", provider>>]

\* The providers the model calls sendMessage with: the enum and one value
\* outside it, which a stored conversation can carry.
ProviderArguments == AIProvider \cup {"bogus"}

\* sendMessage(provider, apiKey, messages, model) up to the request to the
\* provider: the call is pending with the model and the method selected, or
\* has thrown in the default branch of the switch.
sendMessage(provider, model) ==
    /\ ~(last.op = "sendMessage" /\ last.phase = "pending")
    /\ last' = IF adapterOf(provider) = "none"
               THEN [op |-> "sendMessage", phase |-> "thrown",
                     provider |-> provider, model |-> model,
                     adapter |-> "none", error |-> unsupportedProvider(provider)]
               ELSE [op |-> "sendMessage", phase |-> "pending",
                     provider |-> provider, model |-> model,
                     adapter |-> adapterOf(provider),
                     selected |-> selectedModel(provider, model)]
    /\ UNCHANGED <<now, nextId, conversations, messages, apiKeys, setHist, deleted,
                   reqs, started, quota>>

\* The provider answers and the method returns its AIResponse.
sendMessageReturns(answer) ==
    /\ last.op = "sendMessage" /\ last.phase = "pending"
    /\ last' = Spread(last, [phase |-> "returned",
                             ret |-> aiResponse(last.adapter, last.selected, answer)])
    /\ UNCHANGED <<now, nextId, conversations, messages, apiKeys, setHist, deleted,
                   reqs, started, quota>>

\* The request to the provider fails: the awaited SDK call rejects and the
\* method's promise rejects with the same value.
sendMessageThrows(failure) ==
    /\ last.op = "sendMessage" /\ last.phase = "pending"
    /\ last' = Spread(last, [phase |-> "thrown", error |-> failure])
    /\ UNCHANGED <<now, nextId, conversations, messages, apiKeys, setHist, deleted,
                   reqs, started, quota>>

----------------------------------------------------------------------------
(* The REST handlers of registerRoutes.  A handler is an async function:   *)
(* it runs from one await to the next without interruption, and a call of  *)
(* a store method runs the method's body at the call, before the await     *)
(* that receives its result.  A handler is therefore one action per        *)
(* stretch between two awaits; the request's locals are in reqs[r].  Time  *)
(* passes while a request waits: a stretch that reads the clock first lets *)
(* it advance.  The answer of a provider arrives over the network, later   *)
(* than the clock value at which the request to it was sent.               *)

Restrict(f, keys) == [k \in DOMAIN f \cap keys |-> f[k]]

\* The request is over: res.status(status).json(body).
respond(req, status, body) ==
    Spread(req, [pc |-> "done", status |-> status, json |-> body])

free(r) == reqs[r].pc \in {"idle", "done"}

\* A free slot takes a new request while the run has received fewer than
\* its quota.
receive(r) ==
    /\ free(r)
    /\ started < quota
    /\ started' = started + 1
    /\ UNCHANGED quota

\* The clock values a stretch can run at: the clock has not moved since the
\* stretch before it, or it has.  Only the order of the times stored is
\* ever read, so one tick stands for any lapse of time.
Later == {t \in {now, now + 1} : t <= MaxTime}
AfterRoundTrip == {t \in {now + 1} : t <= MaxTime}

ghosts == <<last, setHist, deleted>>

\* insertConversationSchema.parse: title, provider and model are required
\* strings, userId is optional, unknown keys are stripped.
validConversation(data) == {"title", "provider", "model"} \subseteq DOMAIN data
parsedConversation(data) == Restrict(data, {"title", "userId", "provider", "model"})

\* insertApiKeySchema.parse: userId, provider and keyValue are required
\* strings, isActive is optional.
validApiKey(data) == {"userId", "provider", "keyValue"} \subseteq DOMAIN data
parsedApiKey(data) == Restrict(data, {"userId", "provider", "keyValue", "isActive"})

\* ChatMessageSchema.parse: content is a required string.
validChatMessage(body) == "content" \in DOMAIN body

\* keyValue.substring(0, 8) followed by the mask.
MaskLength == 40
MASK == [i \in 1..MaskLength |-> "*"]
masked(keyValue) ==
    SubSeq(keyValue, 1, IF Len(keyValue) < 8 THEN Len(keyValue) ELSE 8) \o MASK

\* The request bodies the model sends.
ConversationBodies ==
    { [title |-> "Test", provider |-> "openai", model |-> "gpt-4o"],
      [title |-> "Test", provider |-> "google", model |-> "", userId |-> "user-2"],
      [title |-> "Test", provider |-> "bogus", model |-> "gpt-4o"],
      [title |-> "Test"] }

ApiKeyBodies ==
    { [provider |-> "openai", keyValue |-> KeyValues[1]],
      [provider |-> "google", keyValue |-> KeyValues[2], isActive |-> FALSE,
       userId |-> "user-2"],
      [provider |-> "bogus", keyValue |-> KeyValues[1]],
      [provider |-> "openai"] }

ProviderParams == {"openai", "google", "bogus"}

ChatBodies ==
    { [content |-> "Hello"],
      [content |-> "Look", images |-> <<"aGk=">>],
      <<>> }

\* POST /api/conversations: parse, then createConversation.
PostConversation(r, body) ==
    /\ receive(r)
    /\ LET data == Spread(body, [userId |-> mockUserId])
       IN  IF ~validConversation(data)
           THEN /\ reqs' = [reqs EXCEPT ![r] =
                      respond([kind |-> "postConversation", body |-> body,
                               pre |-> store], 400,
                              [error |-> "Invalid conversation data"])]
                /\ UNCHANGED <<now, nextId, conversations>>
           ELSE \E t \in Later :
                  LET conv == newConversation(parsedConversation(data), nextId, t)
                  IN  /\ now' = t
                      /\ conversations' = mapSet(conversations, nextId, conv)
                      /\ nextId' = nextId + 1
                      /\ reqs' = [reqs EXCEPT ![r] =
                            [kind |-> "postConversation", pc |-> "created",
                             body |-> body, pre |-> store,
                             conversation |-> conv]]
    /\ UNCHANGED <<messages, apiKeys>>
    /\ UNCHANGED ghosts

PostConversationResponds(r) ==
    /\ reqs[r].kind = "postConversation" /\ reqs[r].pc = "created"
    /\ reqs' = [reqs EXCEPT ![r] = respond(@, 200, @.conversation)]
    /\ UNCHANGED <<now, nextId, conversations, messages, apiKeys, started, quota>>
    /\ UNCHANGED ghosts

\* POST /api/api-keys: parse, then setApiKey.
PostApiKey(r, body) ==
    /\ receive(r)
    /\ LET data == Spread(body, [userId |-> mockUserId])
       IN  IF ~validApiKey(data)
           THEN /\ reqs' = [reqs EXCEPT ![r] =
                      respond([kind |-> "postApiKey", body |-> body,
                               pre |-> store], 400,
                              [error |-> "Invalid API key data"])]
                /\ UNCHANGED <<now, nextId, apiKeys>>
           ELSE \E t \in Later :
                  /\ now' = t
                  /\ apiKeys' = apiKeysAfterSet(apiKeys, parsedApiKey(data), nextId, t)
                  /\ nextId' = nextId + 1
                  /\ reqs' = [reqs EXCEPT ![r] =
                        [kind |-> "postApiKey", pc |-> "set",
                         body |-> body, pre |-> store,
                         apiKey |-> newApiKey(parsedApiKey(data), nextId, t)]]
    /\ UNCHANGED <<conversations, messages>>
    /\ UNCHANGED ghosts

PostApiKeyResponds(r) ==
    /\ reqs[r].kind = "postApiKey" /\ reqs[r].pc = "set"
    /\ reqs' = [reqs EXCEPT ![r] =
          respond(@, 200, [@.apiKey EXCEPT !.keyValue = masked(@)])]
    /\ UNCHANGED <<now, nextId, conversations, messages, apiKeys, started, quota>>
    /\ UNCHANGED ghosts

\* DELETE /api/api-keys/:provider: parse the parameter, then deleteApiKey,
\* which starts with getApiKey.
DeleteApiKey(r, provider) ==
    /\ receive(r)
    /\ reqs' = [reqs EXCEPT ![r] =
          IF provider \notin AIProvider
          THEN respond([kind |-> "deleteApiKey"], 400, [error |-> "Invalid provider"])
          ELSE [kind |-> "deleteApiKey", pc |-> "found",
                key |-> getApiKey(apiKeys, mockUserId, provider)]]
    /\ UNCHANGED <<now, nextId, conversations, messages, apiKeys>>
    /\ UNCHANGED ghosts

\* deleteApiKey after its await: if (key) return this.apiKeys.delete(key.id).
DeleteApiKeyDeletes(r) ==
    /\ reqs[r].kind = "deleteApiKey" /\ reqs[r].pc = "found"
    /\ apiKeys' = IF reqs[r].key # undefined
                  THEN deleteById(apiKeys, reqs[r].key.id) ELSE apiKeys
    /\ reqs' = [reqs EXCEPT ![r] =
          Spread(@, [pc |-> "deleted", returnedAt |-> nextId,
                     ret |-> /\ @.key # undefined
                             /\ \E i \in 1..Len(apiKeys) : apiKeys[i].id = @.key.id])]
    /\ UNCHANGED <<now, nextId, conversations, messages, started, quota>>
    /\ UNCHANGED ghosts

DeleteApiKeyResponds(r) ==
    /\ reqs[r].kind = "deleteApiKey" /\ reqs[r].pc = "deleted"
    /\ reqs' = [reqs EXCEPT ![r] = respond(@, 200, [success |-> TRUE])]
    /\ UNCHANGED <<now, nextId, conversations, messages, apiKeys, started, quota>>
    /\ UNCHANGED ghosts

\* POST /api/conversations/:id/messages, up to its first await:
\* storage.getConversation(id).
Send(r, id, body) ==
    /\ receive(r)
    /\ reqs' = [reqs EXCEPT ![r] =
          [kind |-> "send", pc |-> "loaded", id |-> id, body |-> body,
           pre |-> store, calls |-> 0,
           conversation |-> getConversation(conversations, id)]]
    /\ UNCHANGED <<now, nextId, conversations, messages, apiKeys>>
    /\ UNCHANGED ghosts

\* The ownership check, ChatMessageSchema.parse (a ZodError is caught by
\* the handler's catch) and storage.getApiKey.
SendChecksConversation(r) ==
    /\ reqs[r].kind = "send" /\ reqs[r].pc = "loaded"
    /\ LET req == reqs[r]
           conversation == req.conversation
       IN  reqs' = [reqs EXCEPT ![r] =
              IF conversation = undefined \/ conversation.userId # mockUserId
              THEN respond(req, 404, [error |-> "Conversation not found"])
              ELSE IF ~validChatMessage(req.body)
              THEN respond(req, 500, [error |-> "Failed to send message"])
              ELSE Spread(req, [pc |-> "keyed",
                                apiKey |-> getApiKey(apiKeys, mockUserId,
                                                     conversation.provider)])]
    /\ UNCHANGED <<now, nextId, conversations, messages, apiKeys, started, quota>>
    /\ UNCHANGED ghosts

\* `API key not configured for ${conversation.provider}`
notConfigured(provider) == [error |-> <<"API key not configured for ", provider>>]

\* messageData.images ? { images: messageData.images } : null
imagesMetadata(body) ==
    IF "images" \in DOMAIN body THEN [images |-> body.images] ELSE null

\* A mutant of SendChecksKey: the user's message is built and answered but
\* not stored.
SendSkipsUserTurn(r) ==
    /\ reqs[r].kind = "send" /\ reqs[r].pc = "keyed"
    /\ LET req == reqs[r]
       IN  IF req.apiKey = undefined
           THEN /\ reqs' = [reqs EXCEPT ![r] =
                      respond(req, 400, notConfigured(req.conversation.provider))]
                /\ UNCHANGED <<now, nextId, messages>>
           ELSE \E t \in Later :
                  /\ now' = t
                  /\ nextId' = nextId + 1
                  /\ reqs' = [reqs EXCEPT ![r] =
                        Spread(req, [pc |-> "saved",
                                     userMessage |->
                                        newMessage([conversationId |-> req.id,
                                                    role |-> "user",
                                                    content |-> req.body.content,
                                                    metadata |-> imagesMetadata(req.body)],
                                                   nextId, t)])]
                  /\ UNCHANGED messages
    /\ UNCHANGED <<conversations, apiKeys, started, quota>>
    /\ UNCHANGED ghosts

\* A mutant of SendChecksKey: the user's message is saved before the key
\* is checked.
SendSavesBeforeKeyCheck(r) ==
    /\ reqs[r].kind = "send" /\ reqs[r].pc = "keyed"
    /\ \E t \in Later :
          LET req == reqs[r]
              userMessage ==
                  newMessage([conversationId |-> req.id, role |-> "user",
                              content |-> req.body.content,
                              metadata |-> imagesMetadata(req.body)], nextId, t)
          IN  /\ now' = t
              /\ messages' = Append(messages, userMessage)
              /\ nextId' = nextId + 1
              /\ reqs' = [reqs EXCEPT ![r] =
                    IF req.apiKey = undefined
                    THEN respond(req, 400, notConfigured(req.conversation.provider))
                    ELSE Spread(req, [pc |-> "saved", userMessage |-> userMessage])]
    /\ UNCHANGED <<conversations, apiKeys, started, quota>>
    /\ UNCHANGED ghosts

\* The key check, then storage.createMessage for the user's turn.
SendChecksKey(r) ==
    /\ reqs[r].kind = "send" /\ reqs[r].pc = "keyed"
    /\ LET req == reqs[r]
       IN  IF req.apiKey = undefined
           THEN /\ reqs' = [reqs EXCEPT ![r] =
                      respond(req, 400, notConfigured(req.conversation.provider))]
                /\ UNCHANGED <<now, nextId, messages>>
           ELSE \E t \in Later :
                  LET userMessage ==
                          newMessage([conversationId |-> req.id, role |-> "user",
                                      content |-> req.body.content,
                                      metadata |-> imagesMetadata(req.body)],
                                     nextId, t)
                  IN  /\ now' = t
                      /\ messages' = Append(messages, userMessage)
                      /\ nextId' = nextId + 1
                      /\ reqs' = [reqs EXCEPT ![r] =
                            Spread(req, [pc |-> "saved",
                                         userMessage |-> userMessage])]
    /\ UNCHANGED <<conversations, apiKeys, started, quota>>
    /\ UNCHANGED ghosts

\* storage.getMessagesByConversationId(id)
SendLoadsHistory(r) ==
    /\ reqs[r].kind = "send" /\ reqs[r].pc = "saved"
    /\ reqs' = [reqs EXCEPT ![r] =
          Spread(@, [pc |-> "listed",
                     messages |-> getMessagesByConversationId(messages, @.id)])]
    /\ UNCHANGED <<now, nextId, conversations, messages, apiKeys, started, quota>>
    /\ UNCHANGED ghosts

\* messages.map(msg => ({ role, content, images: msg.metadata?.images }))
chatHistory(msgs) ==
    [i \in 1..Len(msgs) |->
        Spread([role |-> msgs[i].role, content |-> msgs[i].content],
               Restrict(msgs[i].metadata, {"images"}))]

\* aiProviderService.sendMessage(provider, apiKey.keyValue, chatHistory,
\* conversation.model): the method is selected and the request to the
\* provider is sent; a provider outside the switch makes the call throw.
SendCallsProvider(r) ==
    /\ reqs[r].kind = "send" /\ reqs[r].pc = "listed"
    /\ LET req == reqs[r]
           adapter == adapterOf(req.conversation.provider)
           history == chatHistory(req.messages)
       IN  reqs' = [reqs EXCEPT ![r] =
              IF adapter = "none" \/ throwsOnHistory(adapter, history)
              THEN respond(Spread(req, [threw |-> TRUE]), 500,
                           [error |-> "Failed to send message"])
              ELSE Spread(req,
                     [pc |-> "calling", calls |-> req.calls + 1,
                      sentAt |-> now,
                      call |-> [adapter |-> adapter,
                                apiKey |-> req.apiKey.keyValue,
                                messages |-> messagesAfterCall(adapter, history),
                                request |-> outboundRequest(adapter, history),
                                model |-> selectedModel(req.conversation.provider,
                                                        req.conversation.model)]])]
    /\ UNCHANGED <<now, nextId, conversations, messages, apiKeys, started, quota>>
    /\ UNCHANGED ghosts

\* A mutant of SendProviderThrows: the failure is saved as the reply.
SendSavesFailure(r) ==
    /\ reqs[r].kind = "send" /\ reqs[r].pc = "calling"
    /\ \E t \in AfterRoundTrip :
          /\ now' = t
          /\ messages' = Append(messages,
                newMessage([conversationId |-> reqs[r].id, role |-> "assistant",
                            content |-> "Failed to send message"], nextId, t))
          /\ nextId' = nextId + 1
    /\ reqs' = [reqs EXCEPT ![r] =
          respond(Spread(@, [threw |-> TRUE]), 500,
                  [error |-> "Failed to send message"])]
    /\ UNCHANGED <<conversations, apiKeys, started, quota>>
    /\ UNCHANGED ghosts

\* A mutant of SendProviderThrows: the rejection is not caught and the
\* request is left without a response.
SendProviderThrowsUncaught(r) ==
    /\ reqs[r].kind = "send" /\ reqs[r].pc = "calling"
    /\ \E t \in AfterRoundTrip : now' = t
    /\ reqs' = [reqs EXCEPT ![r] = Spread(@, [pc |-> "thrown", threw |-> TRUE])]
    /\ UNCHANGED <<nextId, conversations, messages, apiKeys, started, quota>>
    /\ UNCHANGED ghosts

\* The request to the provider fails: the await throws and the handler's
\* catch answers.
SendProviderThrows(r) ==
    /\ reqs[r].kind = "send" /\ reqs[r].pc = "calling"
    /\ \E t \in AfterRoundTrip : now' = t
    /\ reqs' = [reqs EXCEPT ![r] =
          respond(Spread(@, [threw |-> TRUE]), 500,
                  [error |-> "Failed to send message"])]
    /\ UNCHANGED <<nextId, conversations, messages, apiKeys, started, quota>>
    /\ UNCHANGED ghosts

\* A mutant of SendSavesReply: the conversation's updatedAt is refreshed
\* in the stretch that saves the reply.
SendSavesReplyAndTouches(r, answer) ==
    /\ reqs[r].kind = "send" /\ reqs[r].pc = "calling"
    /\ \E t \in AfterRoundTrip :
          LET req == reqs[r]
              reply == aiResponse(req.call.adapter, req.call.model, answer)
              assistantMessage ==
                  newMessage([conversationId |-> req.id, role |-> "assistant",
                              content |-> reply.content,
                              metadata |-> [usage |-> reply.usage]], nextId, t)
              existing == getConversation(conversations, req.id)
          IN  /\ now' = t
              /\ messages' = Append(messages, assistantMessage)
              /\ conversations' =
                    IF existing = undefined THEN conversations
                    ELSE mapSet(conversations, req.id,
                                updatedConversation(existing, [updatedAt |-> t], t))
              /\ nextId' = nextId + 1
              /\ reqs' = [reqs EXCEPT ![r] =
                    Spread(req, [pc |-> "replied", aiResponse |-> reply,
                                 assistantMessage |-> assistantMessage])]
    /\ UNCHANGED <<apiKeys, started, quota>>
    /\ UNCHANGED ghosts

\* A mutant of SendSavesReply: the replies of overlapping sends to one
\* conversation are saved in the order of their user turns.
SendSavesReplyInTurn(r, answer) ==
    /\ reqs[r].kind = "send" /\ reqs[r].pc = "calling"
    /\ \A other \in Slots \ {r} :
          ~(/\ reqs[other].kind = "send" /\ reqs[other].pc = "calling"
            /\ reqs[other].id = reqs[r].id
            /\ reqs[other].userMessage.id < reqs[r].userMessage.id)
    /\ \E t \in AfterRoundTrip :
          LET req == reqs[r]
              reply == aiResponse(req.call.adapter, req.call.model, answer)
              assistantMessage ==
                  newMessage([conversationId |-> req.id, role |-> "assistant",
                              content |-> reply.content,
                              metadata |-> [usage |-> reply.usage]], nextId, t)
          IN  /\ now' = t
              /\ messages' = Append(messages, assistantMessage)
              /\ nextId' = nextId + 1
              /\ reqs' = [reqs EXCEPT ![r] =
                    Spread(req, [pc |-> "replied", aiResponse |-> reply,
                                 assistantMessage |-> assistantMessage])]
    /\ UNCHANGED <<conversations, apiKeys, started, quota>>
    /\ UNCHANGED ghosts

\* The provider answers: storage.createMessage for the reply.
SendSavesReply(r, answer) ==
    /\ reqs[r].kind = "send" /\ reqs[r].pc = "calling"
    /\ \E t \in AfterRoundTrip :
          LET req == reqs[r]
              reply == aiResponse(req.call.adapter, req.call.model, answer)
              assistantMessage ==
                  newMessage([conversationId |-> req.id, role |-> "assistant",
                              content |-> reply.content,
                              metadata |-> [usage |-> reply.usage]], nextId, t)
          IN  /\ now' = t
              /\ messages' = Append(messages, assistantMessage)
              /\ nextId' = nextId + 1
              /\ reqs' = [reqs EXCEPT ![r] =
                    Spread(req, [pc |-> "replied", aiResponse |-> reply,
                                 assistantMessage |-> assistantMessage])]
    /\ UNCHANGED <<conversations, apiKeys, started, quota>>
    /\ UNCHANGED ghosts

\* A mutant of SendTouchesConversation: the conversation is left alone.
SendSkipsTouch(r) ==
    /\ reqs[r].kind = "send" /\ reqs[r].pc = "replied"
    /\ reqs' = [reqs EXCEPT ![r] = Spread(@, [pc |-> "touched"])]
    /\ UNCHANGED <<now, nextId, conversations, messages, apiKeys, started, quota>>
    /\ UNCHANGED ghosts

\* storage.updateConversation(id, { updatedAt: new Date() })
SendTouchesConversation(r) ==
    /\ reqs[r].kind = "send" /\ reqs[r].pc = "replied"
    /\ \E t \in Later :
          LET existing == getConversation(conversations, reqs[r].id)
          IN  /\ now' = t
              /\ conversations' =
                    IF existing = undefined THEN conversations
                    ELSE mapSet(conversations, reqs[r].id,
                                updatedConversation(existing, [updatedAt |-> t], t))
    /\ reqs' = [reqs EXCEPT ![r] = Spread(@, [pc |-> "touched"])]
    /\ UNCHANGED <<nextId, messages, apiKeys, started, quota>>
    /\ UNCHANGED ghosts

\* res.json({ userMessage, assistantMessage })
SendResponds(r) ==
    /\ reqs[r].kind = "send" /\ reqs[r].pc = "touched"
    /\ reqs' = [reqs EXCEPT ![r] =
          respond(@, 200, [userMessage |-> @.userMessage,
                           assistantMessage |-> @.assistantMessage])]
    /\ UNCHANGED <<now, nextId, conversations, messages, apiKeys, started, quota>>
    /\ UNCHANGED ghosts

\* The stretches of the handlers, for the request in slot r.
Handle(r) ==
    \/ \E body \in ConversationBodies : PostConversation(r, body)
    \/ PostConversationResponds(r)
    \/ \E body \in ApiKeyBodies : PostApiKey(r, body)
    \/ PostApiKeyResponds(r)
    \/ \E provider \in ProviderParams : DeleteApiKey(r, provider)
    \/ DeleteApiKeyDeletes(r)
    \/ DeleteApiKeyResponds(r)
    \/ \E id \in 1..nextId, body \in ChatBodies : Send(r, id, body)
    \/ SendChecksConversation(r)
    \/ SendChecksKey(r)
    \/ SendLoadsHistory(r)
    \/ SendCallsProvider(r)
    \/ SendProviderThrows(r)
    \/ \E answer \in Answers : SendSavesReply(r, answer)
    \/ SendTouchesConversation(r)
    \/ SendResponds(r)

\* GET /api/conversations/:id/messages, up to its first await:
\* storage.getConversation(id).
GetMessages(r, id) ==
    /\ receive(r)
    /\ reqs' = [reqs EXCEPT ![r] =
          [kind |-> "getMessages", pc |-> "loaded", id |-> id, pre |-> store,
           conversation |-> getConversation(conversations, id)]]
    /\ UNCHANGED <<now, nextId, conversations, messages, apiKeys>>
    /\ UNCHANGED ghosts

\* The ownership check, then storage.getMessagesByConversationId(id).
GetMessagesLists(r) ==
    /\ reqs[r].kind = "getMessages" /\ reqs[r].pc = "loaded"
    /\ LET req == reqs[r]
           conversation == req.conversation
       IN  reqs' = [reqs EXCEPT ![r] =
              IF conversation = undefined \/ conversation.userId # mockUserId
              THEN respond(req, 404, [error |-> "Conversation not found"])
              ELSE Spread(req, [pc |-> "listed",
                                messages |-> getMessagesByConversationId(
                                                messages, req.id)])]
    /\ UNCHANGED <<now, nextId, conversations, messages, apiKeys, started, quota>>
    /\ UNCHANGED ghosts

\* res.json(messages)
GetMessagesResponds(r) ==
    /\ reqs[r].kind = "getMessages" /\ reqs[r].pc = "listed"
    /\ reqs' = [reqs EXCEPT ![r] = respond(@, 200, @.messages)]
    /\ UNCHANGED <<now, nextId, conversations, messages, apiKeys, started, quota>>
    /\ UNCHANGED ghosts

\* DELETE /api/conversations/:id, up to its first await:
\* storage.getConversation(id).
DeleteConversation(r, id) ==
    /\ receive(r)
    /\ reqs' = [reqs EXCEPT ![r] =
          [kind |-> "deleteConversation", pc |-> "loaded", id |-> id,
           pre |-> store, conversation |-> getConversation(conversations, id)]]
    /\ UNCHANGED <<now, nextId, conversations, messages, apiKeys>>
    /\ UNCHANGED ghosts

\* A mutant of DeleteConversationChecks: only !conversation is checked.
DeleteConversationOfAnyUser(r) ==
    /\ reqs[r].kind = "deleteConversation" /\ reqs[r].pc = "loaded"
    /\ LET req == reqs[r]
       IN  IF req.conversation = undefined
           THEN /\ reqs' = [reqs EXCEPT ![r] =
                      respond(req, 404, [error |-> "Conversation not found"])]
                /\ UNCHANGED messages
           ELSE /\ messages' = messagesAfterDelete(messages, req.id)
                /\ reqs' = [reqs EXCEPT ![r] = Spread(req, [pc |-> "emptied"])]
    /\ UNCHANGED <<now, nextId, conversations, apiKeys, started, quota>>
    /\ UNCHANGED ghosts

\* The ownership check, then storage.deleteConversation(id) up to its
\* await: deleteMessagesByConversationId(id) has run.
DeleteConversationChecks(r) ==
    /\ reqs[r].kind = "deleteConversation" /\ reqs[r].pc = "loaded"
    /\ LET req == reqs[r]
           conversation == req.conversation
       IN  IF conversation = undefined \/ conversation.userId # mockUserId
           THEN /\ reqs' = [reqs EXCEPT ![r] =
                      respond(req, 404, [error |-> "Conversation not found"])]
                /\ UNCHANGED messages
           ELSE /\ messages' = messagesAfterDelete(messages, req.id)
                /\ reqs' = [reqs EXCEPT ![r] = Spread(req, [pc |-> "emptied"])]
    /\ UNCHANGED <<now, nextId, conversations, apiKeys, started, quota>>
    /\ UNCHANGED ghosts

\* deleteConversation after its await: return this.conversations.delete(id).
DeleteConversationDeletes(r) ==
    /\ reqs[r].kind = "deleteConversation" /\ reqs[r].pc = "emptied"
    /\ conversations' = mapDelete(conversations, reqs[r].id)
    /\ reqs' = [reqs EXCEPT ![r] = Spread(@, [pc |-> "deleted"])]
    /\ UNCHANGED <<now, nextId, messages, apiKeys, started, quota>>
    /\ UNCHANGED ghosts

\* res.json({ success: true })
DeleteConversationResponds(r) ==
    /\ reqs[r].kind = "deleteConversation" /\ reqs[r].pc = "deleted"
    /\ reqs' = [reqs EXCEPT ![r] = respond(@, 200, [success |-> TRUE])]
    /\ UNCHANGED <<now, nextId, conversations, messages, apiKeys, started, quota>>
    /\ UNCHANGED ghosts

\* if (title), if (provider), if (model): a missing field is undefined and
\* the empty string is falsy.
truthy(body, field) == field \in DOMAIN body /\ body[field] # ""

\* The updates PATCH builds from the fields of its body.
patchUpdates(body) ==
    LET given == {field \in {"title", "provider", "model"} : truthy(body, field)}
    IN  [field \in given |-> body[field]]

\* The request bodies of PATCH the model sends.
PatchBodies ==
    { [title |-> "Renamed"],
      [provider |-> "anthropic", model |-> ""],
      [title |-> "Renamed", provider |-> "bogus"] }

\* PATCH /api/conversations/:id, up to its first await:
\* storage.getConversation(id).
PatchConversation(r, id, body) ==
    /\ receive(r)
    /\ reqs' = [reqs EXCEPT ![r] =
          [kind |-> "patchConversation", pc |-> "loaded", id |-> id,
           body |-> body, pre |-> store,
           conversation |-> getConversation(conversations, id)]]
    /\ UNCHANGED <<now, nextId, conversations, messages, apiKeys>>
    /\ UNCHANGED ghosts

\* The ownership check, AIProvider.parse(provider) when a provider is
\* given (a ZodError is caught by the handler's catch), then
\* storage.updateConversation(id, updates).
PatchConversationUpdates(r) ==
    /\ reqs[r].kind = "patchConversation" /\ reqs[r].pc = "loaded"
    /\ LET req == reqs[r]
           conversation == req.conversation
           updates == patchUpdates(req.body)
       IN  IF conversation = undefined \/ conversation.userId # mockUserId
           THEN /\ reqs' = [reqs EXCEPT ![r] =
                      respond(req, 404, [error |-> "Conversation not found"])]
                /\ UNCHANGED <<now, conversations>>
           ELSE IF truthy(req.body, "provider") /\ req.body.provider \notin AIProvider
           THEN /\ reqs' = [reqs EXCEPT ![r] =
                      respond(req, 400, [error |-> "Invalid update data"])]
                /\ UNCHANGED <<now, conversations>>
           ELSE \E t \in Later :
                  LET existing == getConversation(conversations, req.id)
                      updated == updatedConversation(existing, updates, t)
                  IN  /\ now' = t
                      /\ conversations' =
                            IF existing = undefined THEN conversations
                            ELSE mapSet(conversations, req.id, updated)
                      /\ reqs' = [reqs EXCEPT ![r] =
                            Spread(req, [pc |-> "updated",
                                         updated |-> IF existing = undefined
                                                     THEN undefined ELSE updated])]
    /\ UNCHANGED <<nextId, messages, apiKeys, started, quota>>
    /\ UNCHANGED ghosts

\* res.json(updated)
PatchConversationResponds(r) ==
    /\ reqs[r].kind = "patchConversation" /\ reqs[r].pc = "updated"
    /\ reqs' = [reqs EXCEPT ![r] = respond(@, 200, @.updated)]
    /\ UNCHANGED <<now, nextId, conversations, messages, apiKeys, started, quota>>
    /\ UNCHANGED ghosts

\* apiKeys.map(key => ({ ...key, keyValue: masked }))
sanitizedKeys(keys) ==
    [i \in 1..Len(keys) |-> [keys[i] EXCEPT !.keyValue = masked(@)]]

\* GET /api/api-keys, up to its await: storage.getApiKeysByUserId.
GetApiKeys(r) ==
    /\ receive(r)
    /\ reqs' = [reqs EXCEPT ![r] =
          [kind |-> "getApiKeys", pc |-> "listed",
           apiKeys |-> getApiKeysByUserId(apiKeys, mockUserId)]]
    /\ UNCHANGED <<now, nextId, conversations, messages, apiKeys>>
    /\ UNCHANGED ghosts

\* res.json(sanitizedKeys)
GetApiKeysResponds(r) ==
    /\ reqs[r].kind = "getApiKeys" /\ reqs[r].pc = "listed"
    /\ reqs' = [reqs EXCEPT ![r] = respond(@, 200, sanitizedKeys(@.apiKeys))]
    /\ UNCHANGED <<now, nextId, conversations, messages, apiKeys, started, quota>>
    /\ UNCHANGED ghosts

\* GET /api/providers/:provider/models: the handler is not async and
\* answers in the stretch that receives the request.  It calls no method of
\* the store and none that sends a request to a provider.
GetModels(r, provider) ==
    /\ receive(r)
    /\ UNCHANGED <<now, nextId, conversations, messages, apiKeys>>
    /\ reqs' = [reqs EXCEPT ![r] =
          LET req == [kind |-> "getModels", provider |-> provider,
                      pre |-> store, calls |-> 0,
                      post |-> <<conversations', messages', apiKeys'>>]
          IN  IF provider \in AIProvider
              THEN respond(req, 200, [models |-> getAvailableModels(provider)])
              ELSE respond(req, 400, [error |-> "Invalid provider"])]
    /\ UNCHANGED ghosts

\* The stretches of the handlers of the conversation's other endpoints and
\* of the key listing, for the request in slot r.
HandleMore(r) ==
    \/ \E id \in 1..nextId : GetMessages(r, id)
    \/ GetMessagesLists(r)
    \/ GetMessagesResponds(r)
    \/ \E id \in 1..nextId : DeleteConversation(r, id)
    \/ DeleteConversationChecks(r)
    \/ DeleteConversationDeletes(r)
    \/ DeleteConversationResponds(r)
    \/ \E id \in 1..nextId, body \in PatchBodies : PatchConversation(r, id, body)
    \/ PatchConversationUpdates(r)
    \/ PatchConversationResponds(r)
    \/ GetApiKeys(r)
    \/ GetApiKeysResponds(r)

\* Time passes.
Tick ==
    /\ now < MaxTime
    /\ now' = now + 1
    /\ UNCHANGED <<nextId, conversations, messages, apiKeys, last, setHist, deleted, reqs, started, quota>>

Init ==
    /\ now = 0
    /\ nextId = 1
    /\ conversations = <<>>
    /\ messages = <<>>
    /\ apiKeys = <<>>
    /\ last = [op |-> "none", n |-> 0]
    /\ setHist = noHist
    /\ deleted = {}
    /\ reqs = [r \in Slots |-> idle]
    /\ started = 0
    /\ quota = MaxRequests

\* The state after construction, for a run of overlapping requests.
InitOverlap ==
    /\ now = 0
    /\ nextId = 1
    /\ conversations = <<>>
    /\ messages = <<>>
    /\ apiKeys = <<>>
    /\ last = [op |-> "none", n |-> 0]
    /\ setHist = noHist
    /\ deleted = {}
    /\ reqs = [r \in Slots |-> idle]
    /\ started = 0
    /\ quota = MaxOverlapRequests

\* The state after construction, for a run of requests over a seeded store.
InitSeeded ==
    /\ now = 0
    /\ nextId = 1
    /\ conversations = <<>>
    /\ messages = <<>>
    /\ apiKeys = <<>>
    /\ last = [op |-> "none", n |-> 0]
    /\ setHist = noHist
    /\ deleted = {}
    /\ reqs = [r \in Slots |-> idle]
    /\ started = 0
    /\ quota = MaxSeededRequests

\* Calls of the key methods of the store, each run to completion.  No method
\* of the store reads the createdAt of a key, so the clock stays where it is.
NextKeys ==
    \/ \E apiKey \in InsertApiKeys : setApiKey(apiKey)
    \/ \E userId \in Users, provider \in StoreProviders : deleteApiKey(userId, provider)

SpecKeys == Init /\ [][NextKeys]_vars

\* The REST API with one request handled at a time: a request is received
\* when the one before it has been answered.
NextRequests == Handle(1)

SpecRequests == Init /\ [][NextRequests]_vars

\* The whole REST API, one request at a time.
NextApi == Handle(1) \/ HandleMore(1)

SpecApi == Init /\ [][NextApi]_vars

\* The REST API over a store that holds a conversation when the first
\* request arrives: one created by a direct call of the store, for the
\* current user, for another user or for none.
seedConversation ==
    /\ started = 0
    /\ conversations = <<>>
    /\ apiKeys = <<>>
    /\ \E conversation \in InsertConversations : createConversation(conversation)

\* Likewise a key of the current user, set by a direct call of the store.
seedApiKey ==
    /\ started = 0
    /\ apiKeys = <<>>
    /\ \E apiKey \in InsertApiKeys :
          apiKey.userId = mockUserId /\ setApiKey(apiKey)

NextSeeded == seedConversation \/ NextApi

SpecSeeded == InitSeeded /\ [][NextSeeded]_vars

\* The slots of two requests that overlap.
TwoSlots == {1, 2}

\* The requests on API keys, overlapping: a stretch of any request in flight
\* can be the next to run.
NextOverlapKeys ==
    \/ seedApiKey
    \/ \E r \in TwoSlots :
        \/ \E body \in ApiKeyBodies : PostApiKey(r, body)
        \/ PostApiKeyResponds(r)
        \/ \E provider \in ProviderParams : DeleteApiKey(r, provider)
        \/ DeleteApiKeyDeletes(r)
        \/ DeleteApiKeyResponds(r)
        \/ GetApiKeys(r)
        \/ GetApiKeysResponds(r)

SpecOverlapKeys == InitOverlap /\ [][NextOverlapKeys]_vars

\* The stretches of a send, for the request in slot r, with the bodies the
\* model sends and the answers the provider gives.
HandleSend(r, bodies, answers) ==
    \/ \E id \in 1..nextId, body \in bodies : Send(r, id, body)
    \/ SendChecksConversation(r)
    \/ SendChecksKey(r)
    \/ SendLoadsHistory(r)
    \/ SendCallsProvider(r)
    \/ SendProviderThrows(r)
    \/ \E answer \in answers : SendSavesReply(r, answer)
    \/ SendTouchesConversation(r)
    \/ SendResponds(r)

\* The bodies and the answer of the runs of overlapping requests.
OverlapBodies == {body \in ChatBodies : "images" \notin DOMAIN body}
OverlapAnswers == {answer \in Answers : answer.content # ""}

\* The OpenAI key of the current user, set by a direct call of the store
\* after the conversation was seeded.
seedOpenAIKey ==
    /\ started = 0
    /\ apiKeys = <<>>
    /\ conversations # <<>>
    /\ setApiKey([userId |-> mockUserId, provider |-> "openai",
                  keyValue |-> KeyValues[1]])

\* Sends that overlap, over a store seeded with a conversation and a key.
NextOverlapSends ==
    \/ seedConversation
    \/ seedOpenAIKey
    \/ \E r \in TwoSlots : HandleSend(r, OverlapBodies, OverlapAnswers)

SpecOverlapSends == InitOverlap /\ [][NextOverlapSends]_vars

\* The provider answers the call of the request in slot r, or the call
\* fails.
providerSettles(r) ==
    \/ SendProviderThrows(r)
    \/ \E answer \in OverlapAnswers : SendSavesReply(r, answer)

\* The stretches of a send that wait for nothing but the store.  The pc of
\* the request enables at most one of them at a time.
storeSettles(r) ==
    \/ SendChecksConversation(r)
    \/ SendChecksKey(r)
    \/ SendLoadsHistory(r)
    \/ SendCallsProvider(r)
    \/ SendTouchesConversation(r)
    \/ SendResponds(r)

\* What the event loop guarantees: the store's promises are resolved when
\* they are awaited, so the continuation of every stretch of a handler that
\* waits for the store is run.  Whether a provider ever answers is not the
\* program's doing: the call of the request in slot 2 is taken to settle,
\* that of the request in slot 1 may stay pending for ever.
sendsProgress ==
    /\ WF_vars(storeSettles(1))
    /\ WF_vars(storeSettles(2))
    /\ WF_vars(providerSettles(2))

\* The body of the sends whose progress is followed.
ProgressBodies == {body \in OverlapBodies : body # <<>>}

\* Overlapping sends over a store seeded with a conversation of the current
\* user and its key.
NextSendsProgress ==
    \/ /\ started = 0
       /\ conversations = <<>>
       /\ apiKeys = <<>>
       /\ createConversation(CHOOSE c \in InsertConversations : c.title = "Test")
    \/ seedOpenAIKey
    \/ \E r \in TwoSlots : HandleSend(r, ProgressBodies, OverlapAnswers)

\* The state after construction, for a run of one request in each of the
\* two slots.
InitProgress ==
    /\ now = 0
    /\ nextId = 1
    /\ conversations = <<>>
    /\ messages = <<>>
    /\ apiKeys = <<>>
    /\ last = [op |-> "none", n |-> 0]
    /\ setHist = noHist
    /\ deleted = {}
    /\ reqs = [r \in Slots |-> idle]
    /\ started = 0
    /\ quota = Cardinality(TwoSlots)

SpecSendsProgress == InitProgress /\ [][NextSendsProgress]_vars /\ sendsProgress

\* The stretches of DELETE /api/conversations/:id, for the request in slot r.
HandleDelete(r) ==
    \/ \E id \in 1..nextId : DeleteConversation(r, id)
    \/ DeleteConversationChecks(r)
    \/ DeleteConversationDeletes(r)
    \/ DeleteConversationResponds(r)

\* Sends and deletions of conversations that overlap.
NextOverlapDelete ==
    \/ seedConversation
    \/ seedOpenAIKey
    \/ \E r \in TwoSlots : HandleSend(r, OverlapBodies, OverlapAnswers)
    \/ \E r \in TwoSlots : HandleDelete(r)

SpecOverlapDelete == InitOverlap /\ [][NextOverlapDelete]_vars

\* The stretches of GET /api/conversations/:id/messages, for the request in
\* slot r.
HandleList(r) ==
    \/ \E id \in 1..nextId : GetMessages(r, id)
    \/ GetMessagesLists(r)
    \/ GetMessagesResponds(r)

\* Sends, one at a time, and listings of messages that overlap them.
NextListing ==
    \/ seedConversation
    \/ seedOpenAIKey
    \/ HandleSend(1, OverlapBodies, OverlapAnswers)
    \/ HandleList(2)

SpecListing == InitOverlap /\ [][NextListing]_vars

\* Calls of the adapter, one at a time, for every provider of the enum and
\* for one outside it.
NextAdapter ==
    \/ \E provider \in ProviderArguments, model \in ModelArguments :
          sendMessage(provider, model)
    \/ \E answer \in Answers : sendMessageReturns(answer)
    \/ \E failure \in Failures : sendMessageThrows(failure)

SpecAdapter == Init /\ [][NextAdapter]_vars

\* Calls of the conversation methods of the store, each run to completion.
\* new Date() reads the wall clock, which may also be set back.
NextConversations ==
    \/ Tick
    \/ ClockSetBack
    \/ \E conversation \in InsertConversations : createConversation(conversation)
    \/ \E id \in StoreIds, updates \in ConversationUpdates :
          updateConversation(id, updates)
    \/ \E id \in StoreIds : deleteConversation(id)

SpecConversations == Init /\ [][NextConversations]_vars

\* Calls of the message methods of the store and of deleteConversation, each
\* run to completion, under the same clock.
NextMessages ==
    \/ Tick
    \/ ClockSetBack
    \/ createConversation(CHOOSE c \in InsertConversations : c.title = "Test")
    \/ \E message \in InsertMessages(StoreIds) : createMessage(message)
    \/ \E id \in StoreIds : deleteConversation(id)
    \/ \E id \in StoreIds : deleteMessagesByConversationId(id)

SpecMessages == Init /\ [][NextMessages]_vars

\* The providers whose methods relabel the roles, and one whose method
\* passes them on.
RelabelProviders == {"openai", "google", "huggingface", "cohere"}

\* A conversation of the current user with one of these providers, created
\* by a direct call of the store before the first request.
seedProviderConversation ==
    /\ started = 0
    /\ conversations = <<>>
    /\ apiKeys = <<>>
    /\ \E provider \in RelabelProviders :
          createConversation([title |-> "Test", userId |-> mockUserId,
                              provider |-> provider, model |-> ""])

\* The current user's key for the provider of the seeded conversation.
seedProviderKey ==
    /\ started = 0
    /\ apiKeys = <<>>
    /\ conversations # <<>>
    /\ setApiKey([userId |-> mockUserId,
                  provider |-> conversations[1].value.provider,
                  keyValue |-> KeyValues[1]])

\* Sends, one at a time, to a conversation of each of these providers.
NextRelabel ==
    \/ seedProviderConversation
    \/ seedProviderKey
    \/ HandleSend(1, ChatBodies, Answers)

SpecRelabel == InitSeeded /\ [][NextRelabel]_vars

\* Requests for the models of a provider, with calls of the store between
\* them that create the first conversation and set the first key.
NextModels ==
    \/ /\ conversations = <<>>
       /\ createConversation(CHOOSE c \in InsertConversations : c.title = "Test")
    \/ /\ apiKeys = <<>>
       /\ setApiKey([userId |-> mockUserId, provider |-> "google",
                     keyValue |-> KeyValues[1]])
    \/ \E r \in TwoSlots, provider \in ProviderArguments : GetModels(r, provider)

SpecModels == InitSeeded /\ [][NextModels]_vars

\* Calls of the methods that delete, each run to completion, over a store
\* that holds conversations, messages and a key.
NextDeletes ==
    \/ seedApiKey
    \/ \E conversation \in InsertConversations : createConversation(conversation)
    \/ \E message \in InsertMessages(StoreIds) : createMessage(message)
    \/ \E id \in StoreIds : deleteConversation(id)
    \/ \E id \in StoreIds : deleteMessagesByConversationId(id)

SpecDeletes == Init /\ [][NextDeletes]_vars

----------------------------------------------------------------------------
(* C1: after any sequence of setApiKey and deleteApiKey calls, each run to *)
(* completion, every (userId, provider) pair has at most one key with      *)
(* isActive = true.                                                        *)

activeKeys(keys, userId, provider) ==
    {i \in 1..Len(keys) :
        keys[i].userId = userId /\ keys[i].provider = provider /\ keys[i].isActive}

C1_AtMostOneActiveKey ==
    \A userId \in Users, provider \in StoreProviders :
        Cardinality(activeKeys(apiKeys, userId, provider)) <= 1

\* A pair that has an inactive key next to its active one: a later
\* setApiKey has replaced an earlier one.
C1_Witness ==
    \E userId \in Users, provider \in StoreProviders :
        /\ Cardinality(activeKeys(apiKeys, userId, provider)) = 1
        /\ \E i \in 1..Len(apiKeys) :
              /\ apiKeys[i].userId = userId
              /\ apiKeys[i].provider = provider
              /\ ~apiKeys[i].isActive

----------------------------------------------------------------------------
(* C2: setApiKey never removes a key record.  After two setApiKey calls    *)
(* for the same (userId, provider) with no deleteApiKey of the pair        *)
(* between or after them, getApiKeysByUserId returns both records, the     *)
(* second is the only active key of the pair and the one getApiKey         *)
(* returns, and the first is stored with isActive = false and the keyValue *)
(* it was set with.                                                        *)

idsOf(s) == {s[i].id : i \in 1..Len(s)}

byId(s, id) == CHOOSE x \in Range(s) : x.id = id

C2_SetKeepsPriorKey ==
    /\ last.op = "setApiKey" => idsOf(last.pre) \subseteq idsOf(apiKeys)
    /\ \A pair \in Pairs :
          Len(setHist[pair]) = 2 =>
            LET first == setHist[pair][1]
                second == setHist[pair][2]
                listed == getApiKeysByUserId(apiKeys, pair[1])
            IN  /\ first.id # second.id
                /\ {first.id, second.id} \subseteq idsOf(listed)
                /\ getApiKey(apiKeys, pair[1], pair[2]) = second
                /\ \A i \in activeKeys(apiKeys, pair[1], pair[2]) :
                      apiKeys[i].id = second.id
                /\ byId(listed, first.id).isActive = FALSE
                /\ byId(listed, first.id).keyValue = first.keyValue

\* Two setApiKey calls for one pair, with different secrets, and a call for
\* another pair after them.
C2_Witness ==
    \E pair \in Pairs :
        /\ Len(setHist[pair]) = 2
        /\ setHist[pair][1].keyValue # setHist[pair][2].keyValue
        /\ last.op = "setApiKey"
        /\ <<last.userId, last.provider>> # pair

----------------------------------------------------------------------------
(* C6: once deleteConversation(id) has returned, and before any other      *)
(* call, getMessagesByConversationId(id) is empty and getConversation(id)  *)
(* finds nothing; the call returned true exactly when the conversation     *)
(* was in the store; a deleteConversation(id) that directly follows        *)
(* another returns false and leaves the store as it was.                   *)

C6_DeleteConversation ==
    last.op = "deleteConversation" =>
        /\ getMessagesByConversationId(messages, last.id) = <<>>
        /\ getConversation(conversations, last.id) = undefined
        /\ last.ret \in BOOLEAN
        /\ last.ret = (getConversation(last.pre[1], last.id) # undefined)
        /\ last.again =>
              /\ last.ret = FALSE
              /\ <<conversations, messages>> = last.pre

\* A conversation that had messages has just been deleted.
C6_Witness ==
    /\ last.op = "deleteConversation"
    /\ last.ret = TRUE
    /\ getMessagesByConversationId(last.pre[2], last.id) # <<>>

----------------------------------------------------------------------------
(* C7: getMessagesByConversationId(c) returns the stored messages whose    *)
(* conversationId is c, each once and nothing else, in non-decreasing      *)
(* createdAt order, whatever their order in the Map.                       *)

C7_MessagesInCreatedAtOrder ==
    \A c \in StoreIds :
        LET listed == getMessagesByConversationId(messages, c)
            ofC == {m \in Range(messages) : m.conversationId = c}
        IN  /\ Range(listed) = ofC
            /\ Len(listed) = Cardinality(ofC)
            /\ \A i, j \in 1..Len(listed) :
                  i < j => listed[i].createdAt <= listed[j].createdAt

\* A conversation whose messages stand in the Map against their createdAt
\* order, with a message of another conversation between them.
C7_Witness ==
    \E i, j, k \in 1..Len(messages) :
        /\ i < k /\ k < j
        /\ messages[i].conversationId = messages[j].conversationId
        /\ messages[k].conversationId # messages[i].conversationId
        /\ messages[i].createdAt > messages[j].createdAt

----------------------------------------------------------------------------
(* C8: getConversationsByUserId(u) returns the stored conversations whose  *)
(* userId is u, each once and nothing else, in non-increasing updatedAt    *)
(* order, and the empty list when the user has none.                       *)

Count(s, x) == Cardinality({i \in 1..Len(s) : s[i] = x})

C8_ConversationsByUpdatedAtDescending ==
    \A u \in Users \cup {noUser} :
        LET listed == getConversationsByUserId(conversations, u)
            stored == values(conversations)
        IN  /\ \A i \in 1..Len(listed) : listed[i].userId = u
            /\ \A x \in Range(stored) :
                  Count(listed, x) = (IF x.userId = u THEN Count(stored, x) ELSE 0)
            /\ Range(listed) \subseteq Range(stored)
            /\ \A i, j \in 1..Len(listed) :
                  i < j => listed[i].updatedAt >= listed[j].updatedAt
            /\ (\A x \in Range(stored) : x.userId # u) => listed = <<>>

\* A user with two conversations that stand in the Map against the order
\* of the listing, while another user has none.
C8_Witness ==
    /\ \E i, j \in 1..Len(conversations) :
          /\ i < j
          /\ conversations[i].value.userId = conversations[j].value.userId
          /\ conversations[i].value.updatedAt < conversations[j].value.updatedAt
    /\ \E u \in Users : \A i \in 1..Len(conversations) :
          conversations[i].value.userId # u

----------------------------------------------------------------------------
(* C9: updateConversation(id, updates) on a stored conversation stores,    *)
(* under the same key, the old record with the fields of updates laid over *)
(* it and with updatedAt set to the time of the call, whatever updates     *)
(* holds (nothing, or an updatedAt of its own), and returns that record;   *)
(* on an id that is not stored it returns undefined and changes nothing.   *)

C9_UpdateConversation ==
    last.op = "updateConversation" =>
        LET existing == getConversation(last.pre[1], last.id)
            stored == getConversation(conversations, last.id)
        IN  IF existing = undefined
            THEN /\ last.ret = undefined
                 /\ <<conversations, messages>> = last.pre
            ELSE /\ stored # undefined
                 /\ last.ret = stored
                 /\ DOMAIN stored = DOMAIN existing \cup DOMAIN last.updates
                 /\ \A f \in DOMAIN stored :
                       stored[f] = IF f = "updatedAt" THEN last.time
                                   ELSE IF f \in DOMAIN last.updates
                                        THEN last.updates[f]
                                        ELSE existing[f]
                 /\ Len(conversations) = Len(last.pre[1])
                 /\ \A i \in 1..Len(conversations) :
                       /\ conversations[i].key = last.pre[1][i].key
                       /\ conversations[i].key # last.id =>
                             conversations[i] = last.pre[1][i]
                 /\ messages = last.pre[2]

\* A stored conversation has been updated with an updatedAt that is not
\* the time of the call.
C9_Witness ==
    /\ last.op = "updateConversation"
    /\ last.ret # undefined
    /\ "updatedAt" \in DOMAIN last.updates
    /\ last.updates.updatedAt # last.time

----------------------------------------------------------------------------
(* C10: for each of the 12 providers and each model argument, a            *)
(* sendMessage call that returns yields a reply whose provider is the      *)
(* input provider and whose model is the model argument when one is given  *)
(* and is not the empty string, and the provider's entry of DEFAULT_MODELS *)
(* when the model is left out or is the empty string.                      *)

C10_ReplyProviderAndModel ==
    (last.op = "sendMessage" /\ last.phase = "returned") =>
        /\ last.provider \in AIProvider
        /\ last.ret.provider = last.provider
        /\ last.model \notin {noModel, ""} => last.ret.model = last.model
        /\ last.model \in {noModel, ""} =>
              last.ret.model = DEFAULT_MODELS[last.provider]

\* C10 as claimed: the model of the reply is the model argument whenever
\* one is given.
C10_AsClaimed ==
    (last.op = "sendMessage" /\ last.phase = "returned") =>
        /\ last.ret.provider = last.provider
        /\ last.model # noModel => last.ret.model = last.model
        /\ last.model = noModel => last.ret.model = DEFAULT_MODELS[last.provider]

\* A call for an OpenAI-compatible provider with the empty string as its
\* model has returned.
C10_Witness ==
    /\ last.op = "sendMessage"
    /\ last.phase = "returned"
    /\ last.provider = "fireworks"
    /\ last.model = ""

----------------------------------------------------------------------------
(* C3: when a send to an owned conversation that has an active key ends    *)
(* with the provider's reply, and no other request runs meanwhile, the     *)
(* conversation's message list has grown by exactly two messages, the      *)
(* user's message with the request's content and then the assistant's      *)
(* with the reply's content; the response carries exactly those two; and   *)
(* the conversation's updatedAt is later than its createdAt.               *)

answered(r, status) ==
    reqs[r].kind = "send" /\ reqs[r].pc = "done" /\ reqs[r].status = status

C3_SendSavesTurnAndReply ==
    \A r \in Slots :
        answered(r, 200) =>
            LET req == reqs[r]
                before == getMessagesByConversationId(req.pre[2], req.id)
                after == getMessagesByConversationId(messages, req.id)
                conversation == getConversation(conversations, req.id)
            IN  /\ Len(after) = Len(before) + 2
                /\ SubSeq(after, 1, Len(before)) = before
                /\ DOMAIN req.json = {"userMessage", "assistantMessage"}
                /\ after[Len(before) + 1] = req.json.userMessage
                /\ after[Len(before) + 2] = req.json.assistantMessage
                /\ req.json.userMessage.role = "user"
                /\ req.json.userMessage.content = req.body.content
                /\ req.json.assistantMessage.role = "assistant"
                /\ req.json.assistantMessage.content = req.aiResponse.content
                /\ Len(messages) = Len(req.pre[2]) + 2
                /\ conversation # undefined
                /\ conversation.updatedAt > conversation.createdAt

\* A send with an image has been answered with the provider's reply.
C3_Witness ==
    \E r \in Slots :
        /\ answered(r, 200)
        /\ "images" \in DOMAIN reqs[r].body
        /\ reqs[r].aiResponse.content = "Hi"

----------------------------------------------------------------------------
(* C4: a send with a valid body to an owned conversation whose provider    *)
(* has no active key for the user is answered with status 400, API key     *)
(* not configured, and only such a send is; afterwards the store is as it  *)
(* was before the request: no message has been saved, the user's turn      *)
(* included.                                                               *)

owned(conversation) ==
    conversation # undefined /\ conversation.userId = mockUserId

C4_NoKeyNothingSaved ==
    \A r \in Slots :
        (reqs[r].kind = "send" /\ reqs[r].pc = "done") =>
            LET req == reqs[r]
                noKey == /\ owned(req.conversation)
                         /\ validChatMessage(req.body)
                         /\ getApiKey(req.pre[3], mockUserId,
                                      req.conversation.provider) = undefined
            IN  /\ noKey <=> req.status = 400
                /\ req.status = 400 =>
                      /\ req.json = notConfigured(req.conversation.provider)
                      /\ store = req.pre

\* C4 as claimed: after the 400 the conversation holds the user's turn as
\* its one new message.
C4_AsClaimed ==
    \A r \in Slots :
        answered(r, 400) =>
            LET req == reqs[r]
                before == getMessagesByConversationId(req.pre[2], req.id)
                after == getMessagesByConversationId(messages, req.id)
            IN  /\ Len(after) = Len(before) + 1
                /\ after[Len(after)].role = "user"
                /\ after[Len(after)].content = req.body.content

\* A send to an owned conversation has been answered with status 400.
C4_Witness ==
    \E r \in Slots :
        /\ answered(r, 400)
        /\ owned(reqs[r].conversation)

----------------------------------------------------------------------------
(* C5: when the provider call of a send throws, the request is answered    *)
(* with status 500 and the store differs from the store before the request *)
(* by exactly one message, the user's turn: no assistant message has been  *)
(* saved and the conversation's updatedAt is as it was.                    *)

C5_ProviderFailureKeepsUserTurn ==
    \A r \in Slots :
        (reqs[r].kind = "send" /\ reqs[r].pc = "done"
            /\ "threw" \in DOMAIN reqs[r]) =>
            LET req == reqs[r]
            IN  /\ req.status = 500
                /\ messages = Append(req.pre[2], req.userMessage)
                /\ req.userMessage.role = "user"
                /\ req.userMessage.content = req.body.content
                /\ req.userMessage.conversationId = req.id
                /\ conversations = req.pre[1]
                /\ apiKeys = req.pre[3]

\* The request to the provider has been sent and has failed.
C5_Witness ==
    \E r \in Slots :
        /\ answered(r, 500)
        /\ "threw" \in DOMAIN reqs[r]
        /\ reqs[r].calls = 1

----------------------------------------------------------------------------
(* C11: in every state reached through the REST API, the provider of every *)
(* stored conversation and of every stored API key is one of the 12 values *)
(* of AIProvider, and a POST /api/conversations, PATCH                     *)
(* /api/conversations/:id or POST /api/api-keys request whose body names   *)
(* another provider has been answered 400 with the store as it was.        *)

namesOtherProvider(body) ==
    "provider" \in DOMAIN body /\ body.provider \notin AIProvider

C11_ProvidersInEnum ==
    /\ \A i \in 1..Len(conversations) :
          conversations[i].value.provider \in AIProvider
    /\ \A i \in 1..Len(apiKeys) : apiKeys[i].provider \in AIProvider
    /\ \A r \in Slots :
          (/\ reqs[r].kind \in {"postConversation", "patchConversation",
                                "postApiKey"}
           /\ reqs[r].pc = "done"
           /\ namesOtherProvider(reqs[r].body)
           /\ reqs[r].status # 404) =>
              reqs[r].status = 400 /\ store = reqs[r].pre

----------------------------------------------------------------------------
(* C12: a POST /api/conversations, PATCH /api/conversations/:id, POST      *)
(* /api/conversations/:id/messages or POST /api/api-keys request whose     *)
(* body violates the endpoint's schema, on a conversation the user owns    *)
(* where the endpoint names one, is answered with status 400 and leaves    *)
(* the store as it was.                                                    *)

violatesSchema(req) ==
    CASE req.kind = "postConversation" ->
            ~validConversation(Spread(req.body, [userId |-> mockUserId]))
      [] req.kind = "postApiKey" ->
            ~validApiKey(Spread(req.body, [userId |-> mockUserId]))
      [] req.kind = "patchConversation" ->
            owned(req.conversation) /\ namesOtherProvider(req.body)
      [] req.kind = "send" ->
            owned(req.conversation) /\ ~validChatMessage(req.body)
      [] OTHER -> FALSE

C12_InvalidBodyIs400 ==
    \A r \in Slots :
        (reqs[r].pc = "done" /\ violatesSchema(reqs[r])) =>
            reqs[r].status = 400 /\ store = reqs[r].pre

----------------------------------------------------------------------------
(* C13: a GET messages, POST message, PATCH or DELETE request on a         *)
(* conversation id that is not in the store, or whose conversation has     *)
(* another userId than the current user's, is answered with status 404 by  *)
(* its first step after the conversation is loaded; conversations,         *)
(* messages and API keys are as they were when the request arrived, and a  *)
(* POST message has made no call of the provider.                          *)

onConversation(req) ==
    req.kind \in {"getMessages", "send", "patchConversation", "deleteConversation"}

C13_NotFoundLeavesStore ==
    \A r \in Slots :
        (onConversation(reqs[r]) /\ ~owned(reqs[r].conversation)) =>
            /\ store = reqs[r].pre
            /\ reqs[r].pc \in {"loaded", "done"}
            /\ reqs[r].pc = "done" => reqs[r].status = 404
            /\ reqs[r].kind = "send" => reqs[r].calls = 0

\* A DELETE on a conversation of another user has been answered.
C13_Witness ==
    \E r \in Slots :
        /\ reqs[r].kind = "deleteConversation" /\ reqs[r].pc = "done"
        /\ reqs[r].conversation # undefined
        /\ reqs[r].conversation.userId = "user-2"

----------------------------------------------------------------------------
(* C14: for every stored key, of any length, the keyValue in the responses *)
(* of GET /api/api-keys and POST /api/api-keys is the first 8 characters   *)
(* of the secret followed by the mask, and the complete secret does not    *)
(* occur in it.                                                            *)

occursIn(secret, text) ==
    \E i \in 0..(Len(text) - Len(secret)) :
        SubSeq(text, i + 1, i + Len(secret)) = secret

hides(text, secret) ==
    /\ \E n \in 0..8 :
          /\ n = 8 \/ n = Len(secret)
          /\ n <= Len(secret)
          /\ text = SubSeq(secret, 1, n) \o MASK
    /\ ~occursIn(secret, text)

C14_ResponsesHideKeys ==
    \A r \in Slots :
        /\ (reqs[r].kind = "postApiKey" /\ reqs[r].pc = "done"
                /\ reqs[r].status = 200) =>
              hides(reqs[r].json.keyValue, reqs[r].apiKey.keyValue)
        /\ (reqs[r].kind = "getApiKeys" /\ reqs[r].pc = "done") =>
              \A i \in 1..Len(reqs[r].apiKeys) :
                  hides(reqs[r].json[i].keyValue, reqs[r].apiKeys[i].keyValue)

----------------------------------------------------------------------------
(* C15: a send request makes at most one request to a provider: exactly    *)
(* one when the conversation is found and owned, the body is valid and an  *)
(* active key exists for the conversation's provider, and none otherwise;  *)
(* a failed request is not made again.                                     *)

C15_OneProviderCall ==
    \A r \in Slots :
        reqs[r].kind = "send" =>
            /\ reqs[r].calls <= 1
            /\ reqs[r].pc = "done" =>
                  (reqs[r].calls = 1 <=>
                      /\ owned(reqs[r].conversation)
                      /\ validChatMessage(reqs[r].body)
                      /\ getApiKey(reqs[r].pre[3], mockUserId,
                                   reqs[r].conversation.provider) # undefined)

----------------------------------------------------------------------------
(* C16: every failure of a sendMessage call (a transport error, an error   *)
(* of the provider, an unsupported provider) reaches the caller as a value *)
(* of one shape that carries the name of the provider and the underlying   *)
(* message.                                                                *)

C16_FailuresNormalized ==
    (last.op = "sendMessage" /\ last.phase = "thrown") =>
        /\ DOMAIN last.error = {"name", "provider", "message"}
        /\ last.error.name = "SendFailed"
        /\ last.error.provider = last.provider

----------------------------------------------------------------------------
(* C17: setApiKey runs from its call to its return without an await, so    *)
(* POST /api/api-keys requests that overlap, with each other and with      *)
(* DELETE /api/api-keys requests, never leave the user with two active     *)
(* keys for one provider; when two of them for one provider overlap, the   *)
(* key of the one that ran setApiKey second is the active one and the      *)
(* other's is stored inactive.                                             *)

settingKey(r, provider) ==
    /\ reqs[r].kind = "postApiKey" /\ reqs[r].pc = "set"
    /\ reqs[r].apiKey.provider = provider

C17_OverlappingSetsKeepOneActive ==
    \A provider \in ProviderParams :
        /\ Cardinality(activeKeys(apiKeys, mockUserId, provider)) <= 1
        /\ \A r1, r2 \in Slots :
              (/\ settingKey(r1, provider) /\ settingKey(r2, provider)
               /\ reqs[r1].apiKey.id < reqs[r2].apiKey.id) =>
                  /\ \A i \in activeKeys(apiKeys, mockUserId, provider) :
                        apiKeys[i].id >= reqs[r2].apiKey.id
                  /\ \A i \in 1..Len(apiKeys) :
                        apiKeys[i].id = reqs[r1].apiKey.id => ~apiKeys[i].isActive

\* C17 as claimed: two setApiKey calls for one pair that overlap leave the
\* pair with two active keys.
C17_AsClaimed ==
    \A provider \in ProviderParams :
        (\E r1, r2 \in Slots :
            /\ r1 # r2
            /\ settingKey(r1, provider) /\ settingKey(r2, provider)) =>
                Cardinality(activeKeys(apiKeys, mockUserId, provider)) = 2

\* Two POST /api/api-keys requests for one provider are in flight, both
\* past their setApiKey call and neither answered.
C17_Witness ==
    \E r1, r2 \in Slots :
        /\ r1 # r2
        /\ settingKey(r1, "openai") /\ settingKey(r2, "openai")
        /\ Len(apiKeys) >= 2

----------------------------------------------------------------------------
(* C18: two sends to one conversation that overlap are not serialized.     *)
(* When both have saved their user turn and neither has loaded the         *)
(* history, the history either loads next holds both turns; when both      *)
(* calls of the provider are pending, the reply of either can be saved     *)
(* next, whichever user turn came first; and the replies of both are       *)
(* appended to the conversation.                                           *)

sendAt(r, id, pcs) ==
    reqs[r].kind = "send" /\ reqs[r].id = id /\ reqs[r].pc \in pcs

position(msg) == CHOOSE i \in 1..Len(messages) : messages[i] = msg

C18_SendsNotSerialized ==
    \A r1, r2 \in Slots, id \in 1..nextId :
        r1 # r2 =>
            /\ (sendAt(r1, id, {"saved"}) /\ sendAt(r2, id, {"saved"})) =>
                  /\ ENABLED SendLoadsHistory(r1)
                  /\ ENABLED SendLoadsHistory(r2)
                  /\ {reqs[r1].userMessage, reqs[r2].userMessage} \subseteq
                        Range(getMessagesByConversationId(messages, id))
            /\ (/\ sendAt(r1, id, {"calling"}) /\ sendAt(r2, id, {"calling"})
                /\ now < MaxTime) =>
                  /\ ENABLED (\E answer \in Answers : SendSavesReply(r1, answer))
                  /\ ENABLED (\E answer \in Answers : SendSavesReply(r2, answer))
            /\ (/\ sendAt(r1, id, {"replied", "touched", "done"})
                /\ sendAt(r2, id, {"replied", "touched", "done"})
                /\ reqs[r1].pc # "done" \/ reqs[r1].status = 200
                /\ reqs[r2].pc # "done" \/ reqs[r2].status = 200) =>
                  {reqs[r1].assistantMessage, reqs[r2].assistantMessage}
                      \subseteq Range(getMessagesByConversationId(messages, id))

\* Two sends to one conversation have been answered; the provider was
\* called with the same history for both, which holds both user turns; and
\* the reply of the send whose user turn is the later one is stored before
\* the other's.
C18_Witness ==
    \E r1, r2 \in Slots :
        /\ r1 # r2
        /\ answered(r1, 200) /\ answered(r2, 200)
        /\ reqs[r1].id = reqs[r2].id
        /\ reqs[r1].call.messages = reqs[r2].call.messages
        /\ Len(reqs[r1].call.messages) = 2
        /\ reqs[r1].messages =
              <<reqs[r1].userMessage, reqs[r2].userMessage>>
        /\ position(reqs[r2].assistantMessage) < position(reqs[r1].assistantMessage)

----------------------------------------------------------------------------
(* C19: in every send that reaches the call of the provider, also when     *)
(* other sends or a deletion of the conversation overlap it, the history   *)
(* passed to the adapter is in the order of createdAt, holds only messages *)
(* of the send's conversation, and holds the user turn this send has       *)
(* saved, so it is not empty.                                              *)

C19_HistoryHoldsOwnTurn ==
    \A r \in Slots :
        (reqs[r].kind = "send" /\ "call" \in DOMAIN reqs[r]) =>
            LET history == reqs[r].messages
            IN  /\ \A i, j \in 1..Len(history) :
                      i < j => history[i].createdAt <= history[j].createdAt
                /\ \A i \in 1..Len(history) :
                      history[i].conversationId = reqs[r].id
                /\ reqs[r].userMessage \in Range(history)
                /\ reqs[r].call.messages # <<>>

----------------------------------------------------------------------------
(* C20: within one send the steps happen in this order, none skipped or    *)
(* reordered: the user message is saved, then the provider is called, then *)
(* the assistant message is saved, then the conversation's updatedAt is    *)
(* refreshed, then the response is sent; and a listing of the              *)
(* conversation's messages taken by another request while the call of the  *)
(* provider is pending shows the user turn as its last message.            *)

\* The store as the steps of the send in slot 1 have left it.
stepsDone(req) ==
    LET before == req.pre[2]
        conversation == getConversation(conversations, req.id)
    IN  CASE req.pc \in {"loaded", "keyed"} ->
                /\ messages = before /\ conversations = req.pre[1]
                /\ req.calls = 0
          [] req.pc \in {"saved", "listed"} ->
                /\ messages = Append(before, req.userMessage)
                /\ conversations = req.pre[1]
                /\ req.calls = 0
          [] req.pc = "calling" ->
                /\ messages = Append(before, req.userMessage)
                /\ conversations = req.pre[1]
                /\ req.calls = 1
          [] req.pc = "replied" ->
                /\ messages = before \o <<req.userMessage, req.assistantMessage>>
                /\ conversations = req.pre[1]
                /\ req.calls = 1
          [] req.pc = "touched" \/ (req.pc = "done" /\ req.status = 200) ->
                /\ messages = before \o <<req.userMessage, req.assistantMessage>>
                /\ conversation.updatedAt >= req.assistantMessage.createdAt
                /\ conversation.updatedAt >
                      getConversation(req.pre[1], req.id).updatedAt
                /\ req.calls = 1
          [] OTHER -> TRUE

\* The steps a send takes from one await to the next.
sendSteps ==
    { <<"loaded", "keyed">>, <<"keyed", "saved">>, <<"saved", "listed">>,
      <<"listed", "calling">>, <<"calling", "replied">>,
      <<"replied", "touched">>, <<"touched", "done">>,
      <<"loaded", "done">>, <<"keyed", "done">>, <<"listed", "done">>,
      <<"calling", "done">> }

sendStepsInOrder ==
    (reqs[1].kind = "send" /\ reqs[1].pc # "done" /\ reqs'[1] # reqs[1]) =>
        /\ <<reqs[1].pc, reqs'[1].pc>> \in sendSteps
        /\ reqs'[1].pc = "done" =>
              reqs'[1].status = 200 <=> reqs[1].pc = "touched"

listingWhilePending ==
    (/\ reqs[1].kind = "send" /\ reqs[1].pc = "calling"
     /\ reqs[2].kind = "getMessages" /\ reqs[2].pc = "loaded"
     /\ reqs'[2].pc = "listed"
     /\ reqs[2].id = reqs[1].id) =>
        LET listing == reqs'[2].messages
        IN  /\ listing # <<>>
            /\ listing[Len(listing)] = reqs[1].userMessage
            /\ listing = getMessagesByConversationId(
                            Append(reqs[1].pre[2], reqs[1].userMessage), reqs[1].id)

C20_SendStepsInOrder ==
    /\ [](reqs[1].kind = "send" => stepsDone(reqs[1]))
    /\ [][sendStepsInOrder /\ listingWhilePending]_vars

\* The call of the provider is pending and a listing of the conversation
\* taken meanwhile has been answered with the user turn.
C20_Witness ==
    /\ reqs[1].kind = "send" /\ reqs[1].pc = "calling"
    /\ reqs[2].kind = "getMessages" /\ reqs[2].pc = "done"
    /\ reqs[2].status = 200
    /\ reqs[2].json = <<reqs[1].userMessage>>

----------------------------------------------------------------------------
(* C21: deleteApiKey(userId, provider), run to completion, removes the     *)
(* active key of the pair and returns true, or returns false and changes   *)
(* nothing when the pair has no active key; afterwards getApiKey for the   *)
(* pair returns nothing, the inactive keys of the pair stay stored and     *)
(* inactive, and the keys of every other pair are unchanged.               *)

ofPair(key, userId, provider) == key.userId = userId /\ key.provider = provider

C21_DeleteRemovesActiveKey ==
    last.op = "deleteApiKey" =>
        LET active == getApiKey(last.pre, last.userId, last.provider)
            kept(key) == ~(ofPair(key, last.userId, last.provider) /\ key.isActive)
        IN  /\ last.ret = (active # undefined)
            /\ last.ret = FALSE => apiKeys = last.pre
            /\ last.ret = TRUE => active.id \notin idsOf(apiKeys)
            /\ getApiKey(apiKeys, last.userId, last.provider) = undefined
            /\ apiKeys = SelectSeq(last.pre, kept)

\* The active key of a pair that also has an inactive key has been deleted
\* while another pair holds a key.
C21_Witness ==
    /\ last.op = "deleteApiKey"
    /\ last.ret = TRUE
    /\ \E i \in 1..Len(apiKeys) :
          /\ ofPair(apiKeys[i], last.userId, last.provider)
          /\ ~apiKeys[i].isActive
    /\ \E i \in 1..Len(apiKeys) :
          ~ofPair(apiKeys[i], last.userId, last.provider)

----------------------------------------------------------------------------
(* C22: deleteMessagesByConversationId(id) and deleteConversation(id)      *)
(* remove only the messages whose conversationId is id and, for            *)
(* deleteConversation, the conversation id: every other conversation,      *)
(* every message of another conversation and every API key is unchanged;   *)
(* deleteMessagesByConversationId returns true also when nothing matches,  *)
(* and repeating it changes nothing.                                       *)

C22_DeletesTouchOnlyTheirConversation ==
    LET otherMessage(msg) == msg.conversationId # last.id
        otherEntry(entry) == entry.key # last.id
    IN  /\ last.op = "deleteMessagesByConversationId" =>
              /\ last.ret = TRUE
              /\ messages = SelectSeq(last.pre[2], otherMessage)
              /\ conversations = last.pre[1]
              /\ apiKeys = last.keys
              /\ messagesAfterDelete(messages, last.id) = messages
        /\ last.op = "deleteConversation" =>
              /\ messages = SelectSeq(last.pre[2], otherMessage)
              /\ conversations = SelectSeq(last.pre[1], otherEntry)
              /\ apiKeys = last.keys

\* The messages of one conversation have been deleted from a store that
\* holds a key and a message of another conversation.
C22_Witness ==
    /\ last.op = "deleteMessagesByConversationId"
    /\ apiKeys # <<>>
    /\ messages # <<>>
    /\ Len(messages) < Len(last.pre[2])

\* Nothing matched, and the call returned true.
C22_WitnessNothingMatches ==
    /\ last.op = "deleteMessagesByConversationId"
    /\ last.pre[2] # <<>>
    /\ messages = last.pre[2]
    /\ last.ret = TRUE

----------------------------------------------------------------------------
(* C23: in every reachable state the role of every stored message is       *)
(* 'user' or 'assistant'.  The labels of a provider (Google's 'model',     *)
(* Cohere's 'USER' and 'CHATBOT', Hugging Face's 'Human' and 'Assistant')  *)
(* appear only in the request sent to it: they are written neither to the  *)
(* store nor into the history array the handler passed to the adapter.     *)

Roles == {"user", "assistant"}

rolesOf(s) == {s[i].role : i \in 1..Len(s)}

\* The roles in the request a method has sent.
outboundRoles(call) ==
    CASE call.adapter = "sendGoogleMessage" -> rolesOf(call.request.contents)
      [] call.adapter = "sendHuggingFaceMessage" ->
            {call.request.inputs[i][1] : i \in 1..(Len(call.request.inputs) - 1)}
      [] call.adapter = "sendCohereMessage" ->
            IF Len(call.messages) > 1 THEN rolesOf(call.request.chatHistory)
            ELSE {}
      [] OTHER -> rolesOf(call.request.messages)

C23_ProviderRolesStayOnTheWire ==
    /\ rolesOf(messages) \subseteq Roles
    /\ \A r \in Slots :
          "call" \in DOMAIN reqs[r] =>
              LET call == reqs[r].call
              IN  /\ rolesOf(call.messages) \subseteq Roles
                  /\ call.messages = chatHistory(reqs[r].messages)
                  /\ call.adapter = "sendGoogleMessage" =>
                        outboundRoles(call) \subseteq {"user", "model"}
                  /\ call.adapter = "sendCohereMessage" =>
                        outboundRoles(call) \subseteq {"USER", "CHATBOT"}
                  /\ call.adapter = "sendHuggingFaceMessage" =>
                        outboundRoles(call) \subseteq {"Human", "Assistant"}

\* A send to a Gemini conversation whose history holds an earlier reply has
\* sent 'model' to the provider and has saved its own reply.
C23_Witness ==
    /\ reqs[1].kind = "send" /\ reqs[1].pc = "replied"
    /\ reqs[1].call.adapter = "sendGoogleMessage"
    /\ "model" \in outboundRoles(reqs[1].call)
    /\ Len(messages) = 4

\* Likewise for Cohere and for Hugging Face.
C23_WitnessCohere ==
    /\ reqs[1].kind = "send" /\ reqs[1].pc = "replied"
    /\ reqs[1].call.adapter = "sendCohereMessage"
    /\ outboundRoles(reqs[1].call) = {"USER", "CHATBOT"}

C23_WitnessHuggingFace ==
    /\ reqs[1].kind = "send" /\ reqs[1].pc = "replied"
    /\ reqs[1].call.adapter = "sendHuggingFaceMessage"
    /\ outboundRoles(reqs[1].call) = {"Human", "Assistant"}

----------------------------------------------------------------------------
(* C24: GET /providers/:provider/models answers, for each of the twelve    *)
(* providers, the same non-empty list in every state of the store, a list  *)
(* that holds the provider's DEFAULT_MODELS entry (for google, a list that *)
(* holds "gemini-2.5-flash"); the request calls no provider and changes    *)
(* nothing in the store; a provider outside the enum is answered with 400. *)

modelsRequest(req) == req.kind = "getModels" /\ req.pc = "done"

C24_ModelsAreFixed ==
    /\ \A r \in Slots :
          modelsRequest(reqs[r]) =>
              /\ reqs[r].calls = 0
              /\ reqs[r].post = reqs[r].pre
              /\ reqs[r].status = IF reqs[r].provider \in AIProvider THEN 200 ELSE 400
              /\ reqs[r].status = 200 =>
                    /\ reqs[r].json.models # <<>>
                    /\ DEFAULT_MODELS[reqs[r].provider] \in Range(reqs[r].json.models)
                    /\ reqs[r].provider = "google" =>
                          "gemini-2.5-flash" \in Range(reqs[r].json.models)
    /\ \A r1, r2 \in Slots :
          /\ modelsRequest(reqs[r1]) /\ modelsRequest(reqs[r2])
          /\ reqs[r1].provider = reqs[r2].provider
          => reqs[r1].json = reqs[r2].json

\* The models of google have been asked for in two states of the store.
C24_Witness ==
    /\ modelsRequest(reqs[1]) /\ modelsRequest(reqs[2])
    /\ reqs[1].provider = "google" /\ reqs[2].provider = "google"
    /\ reqs[1].pre # reqs[2].pre
    /\ reqs[1].status = 200

----------------------------------------------------------------------------
(* C25: in every reachable state, also when requests overlap and           *)
(* interleave at their awaits (a send in flight while a DELETE of its      *)
(* conversation runs, or a message created between the two steps of        *)
(* deleteConversation), the conversationId of every stored message names a *)
(* conversation that is in the store: no message outlives its              *)
(* conversation.                                                           *)

C25_NoMessageOutlivesConversation ==
    \A i \in 1..Len(messages) :
        getConversation(conversations, messages[i].conversationId) # undefined

----------------------------------------------------------------------------
(* C26: when deleteApiKey and setApiKey calls for one (userId, provider)   *)
(* overlap, interleaved at their awaits, the record deleteApiKey removes   *)
(* is active at the moment it is removed; whenever deleteApiKey has        *)
(* returned true and no setApiKey has started since it returned, getApiKey *)
(* for the pair returns nothing.                                           *)

deletingKey(r) ==
    /\ reqs[r].kind = "deleteApiKey"
    /\ "key" \in DOMAIN reqs[r]
    /\ reqs[r].key # undefined

C26_DeleteRemovesTheActiveKey ==
    \A r \in Slots :
        deletingKey(r) =>
            /\ reqs[r].pc = "found" =>
                  \A i \in 1..Len(apiKeys) :
                      apiKeys[i].id = reqs[r].key.id => apiKeys[i].isActive
            /\ (/\ reqs[r].pc \in {"deleted", "done"}
                /\ reqs[r].ret
                /\ reqs[r].returnedAt = nextId) =>
                  getApiKey(apiKeys, mockUserId, reqs[r].key.provider) = undefined

----------------------------------------------------------------------------
(* C27: whenever a send answers success with {userMessage,                 *)
(* assistantMessage}, at the moment of the response both messages are in   *)
(* the store and the conversation exists with its updatedAt refreshed by   *)
(* this send, also when a DELETE of the conversation overlaps the send.    *)
(* The response is sent from a state in which the send has returned from   *)
(* updateConversation.                                                     *)

C27_SuccessMeansStored ==
    \A r \in Slots :
        (reqs[r].kind = "send" /\ reqs[r].pc = "touched") =>
            LET conversation == getConversation(conversations, reqs[r].id)
            IN  /\ reqs[r].userMessage \in Range(messages)
                /\ reqs[r].assistantMessage \in Range(messages)
                /\ conversation # undefined
                /\ conversation.updatedAt >= reqs[r].assistantMessage.createdAt

----------------------------------------------------------------------------
(* C28: in every state reached by sends that interleave in any way, with   *)
(* no delete request, each conversation holds at least as many user        *)
(* messages as assistant messages, and every assistant message comes       *)
(* after, in the order of creation, the user message saved by the same     *)
(* send.                                                                   *)

withRole(msgs, role) == {i \in 1..Len(msgs) : msgs[i].role = role}

C28_UserTurnBeforeReply ==
    /\ \A id \in 1..nextId :
          LET ofConversation == getMessagesByConversationId(messages, id)
          IN  Cardinality(withRole(ofConversation, "user")) >=
                  Cardinality(withRole(ofConversation, "assistant"))
    /\ \A r \in Slots :
          (reqs[r].kind = "send" /\ "assistantMessage" \in DOMAIN reqs[r]) =>
              /\ reqs[r].userMessage \in Range(messages)
              /\ reqs[r].assistantMessage \in Range(messages)
              /\ position(reqs[r].userMessage) < position(reqs[r].assistantMessage)
              /\ reqs[r].userMessage.id < reqs[r].assistantMessage.id
              /\ reqs[r].userMessage.conversationId =
                    reqs[r].assistantMessage.conversationId

\* Two sends to one conversation overlapped: both user turns were saved
\* before either reply.
C28_Witness ==
    \E r1, r2 \in Slots :
        /\ r1 # r2
        /\ reqs[r1].kind = "send" /\ reqs[r2].kind = "send"
        /\ reqs[r1].id = reqs[r2].id
        /\ "assistantMessage" \in DOMAIN reqs[r1]
        /\ "assistantMessage" \in DOMAIN reqs[r2]
        /\ position(reqs[r2].userMessage) < position(reqs[r1].assistantMessage)
        /\ position(reqs[r1].userMessage) < position(reqs[r2].assistantMessage)

----------------------------------------------------------------------------
(* C29: every send gets exactly one response provided its call of the      *)
(* provider returns or throws; a call that stays pending holds up only its *)
(* own request, and every other request, a send to the same conversation   *)
(* included, still completes.  The request in slot 1 is the one whose      *)
(* provider may never answer: it gets as far as the pending call.  The     *)
(* clock of the model stops at MaxTime, and an answer takes time to        *)
(* arrive: a call that is pending when the clock has stopped is where the  *)
(* bounded run ends.                                                       *)

sending(r) == reqs[r].kind = "send"

responded(r) == reqs[r].kind = "send" /\ reqs[r].pc = "done"

pendingCall(r) == reqs[r].kind = "send" /\ reqs[r].pc = "calling"

\* A response is final: the slot of an answered request changes only when
\* the next request is received in it.
oneResponse ==
    \A r \in Slots :
        responded(r) => (reqs'[r] = reqs[r] \/ reqs'[r].pc = "loaded")

C29_SendsComplete ==
    /\ [][oneResponse]_vars
    /\ sending(2) ~> (responded(2) \/ (pendingCall(2) /\ now = MaxTime))
    /\ sending(1) ~> (responded(1) \/ pendingCall(1))

\* The send in slot 2 has been answered with the reply while the call of
\* the send in slot 1, to the same conversation, is pending: it saved its
\* user turn after the other had loaded its history.
C29_Witness ==
    /\ pendingCall(1)
    /\ responded(2)
    /\ reqs[2].status = 200
    /\ reqs[2].id = reqs[1].id
    /\ reqs[2].userMessage \notin Range(reqs[1].messages)

----------------------------------------------------------------------------
(* C30: a request body cannot override the fields the server sets.  Every  *)
(* conversation created by POST /conversations and every key created by    *)
(* POST /api-keys is stored with the userId of the current (mock) user,    *)
(* whatever userId the body carries, and the key just created is stored    *)
(* with isActive = true, whatever isActive the body carries.               *)

justCreated(r, kind, pc) == reqs[r].kind = kind /\ reqs[r].pc = pc

C30_BodyCannotOverride ==
    /\ \A i \in 1..Len(conversations) : conversations[i].value.userId = mockUserId
    /\ \A i \in 1..Len(apiKeys) : apiKeys[i].userId = mockUserId
    /\ \A r \in Slots :
          /\ justCreated(r, "postConversation", "created") =>
                /\ getConversation(conversations, reqs[r].conversation.id) # undefined
                /\ getConversation(conversations, reqs[r].conversation.id).userId
                      = mockUserId
          /\ justCreated(r, "postApiKey", "set") =>
                \E i \in 1..Len(apiKeys) :
                    /\ apiKeys[i].id = reqs[r].apiKey.id
                    /\ apiKeys[i].userId = mockUserId
                    /\ apiKeys[i].isActive = TRUE
                    /\ apiKeys[i].provider = reqs[r].body.provider
                    /\ apiKeys[i].keyValue = reqs[r].body.keyValue

\* A key has just been created from a body that names another user and
\* isActive = false, in a store that holds a conversation created from a
\* body that names another user.
C30_Witness ==
    /\ justCreated(1, "postApiKey", "set")
    /\ "isActive" \in DOMAIN reqs[1].body
    /\ reqs[1].body.isActive = FALSE
    /\ reqs[1].body.userId # mockUserId
    /\ \E i \in 1..Len(conversations) : conversations[i].value.provider = "google"

====
